---- MODULE Spec2Model ----
(***************************************************************************)
(* A model of the vGPU device manager: the kernel-visible vGPU state of a  *)
(* host (mediated-device or VFIO/SR-IOV backend), the allocation engine    *)
(* (GetVGPUConfig / SetVGPUConfig / ClearVGPUConfig / CreateVGPUDevices)   *)
(* and the apply / assert commands that drive it.                          *)
(*                                                                         *)
(* Every handler is one action.  A handler's kernel I/O is threaded        *)
(* through a context record c: c.k is the kernel state, c.log the reads of *)
(* availability and the writes issued so far, c.n the number of reads /    *)
(* deletes / creates performed so far (an injected I/O fault names the     *)
(* kind and the ordinal of the operation that fails), c.err the error      *)
(* being returned, c.san the sanitized config, c.val the map returned by   *)
(* GetVGPUConfig, c.visits the GPUs apply walked and c.matched the marks   *)
(* assert keeps.                                                           *)
(***************************************************************************)
EXTENDS Integers, Sequences, FiniteSets, TLC

VARIABLES
    isVFIOMode, \* backend chosen when the manager is constructed
    vgpus,      \* kernel state: parent -> the vGPU instances (type names) it hosts
    last,       \* what the last handler was called with, did and returned
    calls,      \* the number of calls made so far
    engine,     \* the engine two concurrent reconciliation passes run
    mutex,      \* VGPUDeviceManager.mutex: 0 when free, else the pass holding it
    availableVGPUTypesMap,  \* VGPUDeviceManager: type -> parents that can host it
    unconfiguredParentsMap, \* VGPUDeviceManager: the parents without devices yet
    pass,       \* pass -> the position and the locals of the goroutine running it
    uuids,      \* parent -> the UUIDs of the devices it hosts, as vgpus lists them
    writers,    \* the passes in the order they wrote to the kernel
    label,      \* value of the node label nvidia.com/vgpu.config ("" when unset)
    listed,     \* the informer has listed the node and is watching it
    queue,      \* node events the informer has still to hand to its handlers
    vGPUConfig, \* the SyncableVGPUConfig of start(): its current and lastRead
    mainPc,     \* where the goroutine running start() is
    selectedConfig, \* the config start() is about to pass or has passed to updateConfig
    hist,       \* the label changes, Set calls and Get returns made so far
    arg,        \* the argument of the function under test
    ret         \* the function applied last and what it returned

engineVars == <<isVFIOMode, vgpus, last, calls>>

passVars ==
    <<engine, mutex, availableVGPUTypesMap, unconfiguredParentsMap, pass, uuids,
      writers>>

syncVars == <<label, listed, queue, vGPUConfig, mainPc, selectedConfig, hist>>

pureVars == <<arg, ret>>

vars == <<engineVars, passVars, syncVars, pureVars>>

\* no reconciliation pass has been started
NoPasses ==
    /\ engine = "none"
    /\ mutex = 0
    /\ availableVGPUTypesMap = <<>>
    /\ unconfiguredParentsMap = {}
    /\ pass = <<>>
    /\ uuids = <<>>
    /\ writers = <<>>

\* the daemon that watches the node label is not running
NoDaemon ==
    /\ label = ""
    /\ listed = FALSE
    /\ queue = <<>>
    /\ vGPUConfig = [current |-> "", lastRead |-> ""]
    /\ mainPc = "none"
    /\ selectedConfig = ""
    /\ hist = <<>>

\* no function is under test
NoInput == arg = [kind |-> "none"] /\ ret = [op |-> "none"]

-----------------------------------------------------------------------------
(* Bounds of the model.                                                    *)

\* available_instances a mediated-device parent reports for T4-1Q when empty
T4Cap == 8
\* an injected I/O fault hits the 1st .. MaxFaultAt-th operation of its kind
MaxFaultAt == 2
\* and, in SetVGPUConfig, up to the MaxReadFaultAt-th read: the first reads of
\* that call find the GPU and its parents, the reads of availability come
\* after them
MaxReadFaultAt == 3

\* the calls made in one run
MaxCalls == 2

-----------------------------------------------------------------------------
(* vGPU type names are strings; they are modelled as tuples of characters  *)
(* so that suffix tests and trimming are computed, not assumed.            *)

AttributeMediaExtensions    == <<"M", "E">>
AttributeNoMediaExtensions  == <<"N", "O", "M", "E">>
AttributeMediaExtensionsAll == <<"M", "E", "A", "L", "L">>
AttributeGraphics           == <<"G", "F", "X">>

T4_1Q       == <<"T", "4", "-", "1", "Q">>
DC_1_24Q    == <<"D", "C", "-", "1", "-", "2", "4", "Q">>
DC_1_24QME  == DC_1_24Q \o AttributeMediaExtensions
DC_1_24QGFX == DC_1_24Q \o AttributeGraphics
DC_2_48Q    == <<"D", "C", "-", "2", "-", "4", "8", "Q">>

NoType == <<>>

HasSuffix(s, suffix) ==
    /\ Len(s) >= Len(suffix)
    /\ SubSeq(s, Len(s) - Len(suffix) + 1, Len(s)) = suffix

TrimSuffix(s, suffix) ==
    IF HasSuffix(s, suffix) THEN SubSeq(s, 1, Len(s) - Len(suffix)) ELSE s

\* the suffixes with ME tried before NOME
MutStripSuffixes ==
    << AttributeMediaExtensionsAll, AttributeMediaExtensions,
       AttributeNoMediaExtensions, AttributeGraphics >>

StripSuffixes ==
    << AttributeMediaExtensionsAll, AttributeNoMediaExtensions,
       AttributeMediaExtensions, AttributeGraphics >>

RECURSIVE StripFrom(_, _, _)
StripFrom(configType, suffixes, i) ==
    IF i > Len(suffixes) THEN configType
    ELSE IF HasSuffix(configType, suffixes[i])
         THEN TrimSuffix(configType, suffixes[i])
         ELSE StripFrom(configType, suffixes, i + 1)

stripVGPUConfigSuffix(configType) == StripFrom(configType, StripSuffixes, 1)

-----------------------------------------------------------------------------
(* The host: two physical GPUs.  GPU 0 is backed by two parent devices,    *)
(* GPU 1 by one; parents are enumerated in the order 1, 2, 3.              *)

GPUs == {0, 1}

ParentPF == <<0, 0, 1>>

ParentIds == DOMAIN ParentPF

GetPhysicalFunction(p) == ParentPF[p]

\* PCI device id of a GPU, as matched by a device-filter
DeviceIDOf(gpu) == IF gpu = 0 THEN "0x1EB8" ELSE "0x2BB5"

IsSpace(ch) == ch \in {" ", "\n", "\t"}

RECURSIVE TrimSpace(_)
TrimSpace(str) ==
    IF str = <<>> THEN str
    ELSE IF IsSpace(Head(str)) THEN TrimSpace(Tail(str))
    ELSE IF IsSpace(str[Len(str)]) THEN TrimSpace(SubSeq(str, 1, Len(str) - 1))
    ELSE str

\* the last element of strings.Split(str, " ")
RECURSIVE LastField(_, _)
LastField(str, i) ==
    IF i = 0 THEN str
    ELSE IF str[i] = " " THEN SubSeq(str, i + 1, Len(str))
    ELSE LastField(str, i - 1)

\* parseVGPUTypeName / parseMdevTypeName: the type name of a vendor name
parseVGPUTypeName(rawName) ==
    LET nameStr == TrimSpace(rawName) IN LastField(nameStr, Len(nameStr))

\* the vendor names of the vGPU types a GPU supports, as the name files
\* under mdev_supported_types and NVML report them
VendorNames(gpu) ==
    IF gpu = 0
    THEN { <<"N", "V", "I", "D", "I", "A", " ">> \o T4_1Q \o <<"\n">>,
           <<"N", "V", "I", "D", "I", "A", " ", "R", "T", "X", " ">> \o DC_1_24Q,
           <<"N", "V", "I", "D", "I", "A", " ", "R", "T", "X", " ">> \o DC_1_24QME \o <<"\n">> }
    ELSE { <<"N", "V", "I", "D", "I", "A", " ", "R", "T", "X", " ">> \o DC_1_24Q,
           <<"N", "V", "I", "D", "I", "A", " ", "R", "T", "X", " ">> \o DC_1_24QME \o <<"\n">> }

\* the keys of mdevPaths of a parent (mdev) and the type names its
\* creatable_vgpu_types can list at all (VFIO)
SupportedTypes(p) ==
    {parseVGPUTypeName(rawName) : rawName \in VendorNames(GetPhysicalFunction(p))}

\* most instances of a type one empty parent can host
MaxInstances(vfio, p, t) ==
    IF vfio THEN 1
    ELSE IF t = T4_1Q THEN T4Cap
    ELSE IF t = DC_1_24Q THEN 2
    ELSE 1

\* content of mdev_supported_types/<t>/available_instances: the framebuffer
\* of a parent is shared, so instances of one type leave no room for another
AvailableInstancesFile(vfio, k, p, t) ==
    IF \E i \in DOMAIN k[p] : k[p][i] # t THEN 0
    ELSE MaxInstances(vfio, p, t) - Len(k[p])

\* creatable_vgpu_types listing every type of the GPU whatever the virtual
\* function holds
MutCreatableTypesFile(vfio, k, p) == SupportedTypes(p)

\* the names listed by creatable_vgpu_types of a virtual function: nothing
\* can be created on a virtual function that already has a current type
CreatableTypesFile(vfio, k, p) ==
    {t \in SupportedTypes(p) : AvailableInstancesFile(vfio, k, p, t) > 0}

EmptyKernel == [p \in ParentIds |-> <<>>]

-----------------------------------------------------------------------------
(* Errors, injected I/O faults and the context a handler threads through   *)
(* its kernel I/O.                                                         *)

NoErr == [kind |-> "nil", type |-> NoType, count |-> 0]

Err(kind, t, n) == [kind |-> kind, type |-> t, count |-> n]

NoFault == [kind |-> "none", at |-> 0]

Faults == {NoFault} \cup [kind : {"read", "delete", "create"}, at : 1 .. MaxFaultAt]

\* the faults injected into SetVGPUConfig, whose Sanitizing reads come after
\* the reads that find the GPU and its parents
SetFaults == Faults \cup [kind : {"read"}, at : MaxFaultAt + 1 .. MaxReadFaultAt]

EmptyConfig == [t \in {} |-> 0]

NewContext(k) ==
    [k |-> k, log |-> <<>>, n |-> [read |-> 0, delete |-> 0, create |-> 0],
     err |-> NoErr, san |-> EmptyConfig, val |-> EmptyConfig, visits |-> <<>>,
     matched |-> [g \in GPUs |-> FALSE]]

\* the next operation of this kind is the one the injected fault hits
Fails(c, f, kind) == f.kind = kind /\ c.n[kind] + 1 = f.at

Tick(c, kind) == [c EXCEPT !.n[kind] = @ + 1]

Failed(c, e) == [c EXCEPT !.err = e]

IsNil(e) == e.kind = "nil"

-----------------------------------------------------------------------------
(* Backend device abstraction: parents and devices of either backend.      *)
(* Each operator returns [c, err, val]: the context after the I/O, the     *)
(* error returned (NoErr for nil) and the value returned.                  *)

Ret(c, e, v) == [c |-> c, err |-> e, val |-> v]

GetGPUByIndex(c, f, gpu) ==
    IF Fails(c, f, "read") \/ gpu \notin GPUs
    THEN Ret(Tick(c, "read"), Err("GetGPUByIndex", NoType, gpu), -1)
    ELSE Ret(Tick(c, "read"), NoErr, gpu)

GetAllParentDevices(c, f) ==
    IF Fails(c, f, "read")
    THEN Ret(Tick(c, "read"), Err("GetAllParentDevices", NoType, 0), <<>>)
    ELSE Ret(Tick(c, "read"), NoErr, [i \in ParentIds |-> i])

RECURSIVE DevicesFrom(_, _)
DevicesFrom(k, p) ==
    IF p > Len(ParentPF) THEN <<>>
    ELSE [i \in DOMAIN k[p] |-> [parent |-> p, type |-> k[p][i]]]
         \o DevicesFrom(k, p + 1)

GetAllDevices(c, f) ==
    IF Fails(c, f, "read")
    THEN Ret(Tick(c, "read"), Err("GetAllDevices", NoType, 0), <<>>)
    ELSE Ret(Tick(c, "read"), NoErr, DevicesFrom(c.k, 1))

\* GetAvailableVGPUInstances that answers -1 for a parent without room
MutGetAvailableVGPUInstances(vfio, c, f, p, t) ==
    IF vfio
    THEN IF Fails(c, f, "read")
         THEN Ret(Tick(c, "read"), Err("GetAvailableVGPUInstances", t, 0), 0)
         ELSE Ret(Tick(c, "read"), NoErr,
                  IF t \in CreatableTypesFile(vfio, c.k, p) THEN 1 ELSE -1)
    ELSE IF t \notin SupportedTypes(p) THEN Ret(c, NoErr, -1)
         ELSE IF Fails(c, f, "read")
              THEN Ret(Tick(c, "read"), Err("GetAvailableVGPUInstances", t, 0), -1)
              ELSE Ret(Tick(c, "read"), NoErr,
                       IF AvailableInstancesFile(vfio, c.k, p, t) > 0
                       THEN AvailableInstancesFile(vfio, c.k, p, t) ELSE -1)

\* MDEVParentDevice / VFIOParentDevice . GetAvailableVGPUInstances
GetAvailableVGPUInstances(vfio, c, f, p, t) ==
    IF vfio
    THEN IF Fails(c, f, "read")
         THEN Ret(Tick(c, "read"), Err("GetAvailableVGPUInstances", t, 0), 0)
         ELSE Ret(Tick(c, "read"), NoErr,
                  IF t \in CreatableTypesFile(vfio, c.k, p) THEN 1 ELSE 0)
    ELSE IF t \notin SupportedTypes(p) THEN Ret(c, NoErr, -1)
         ELSE IF Fails(c, f, "read")
              THEN Ret(Tick(c, "read"), Err("GetAvailableVGPUInstances", t, 0), -1)
              ELSE Ret(Tick(c, "read"), NoErr,
                       AvailableInstancesFile(vfio, c.k, p, t))

Logged(c, op, p, t, ok, v) ==
    [c EXCEPT !.log = Append(@, [op |-> op, parent |-> p, type |-> t,
                                 ok |-> ok, val |-> v])]

\* trace entry of a call of IsVGPUTypeAvailable: the context after it
Checked(r, p, t) == Logged(r.c, "check", p, t, IsNil(r.err), IF r.val THEN 1 ELSE 0)

\* IsVGPUTypeAvailable answering true whatever the files say
MutIsVGPUTypeAvailable(vfio, c, f, p, t) == Ret(c, NoErr, TRUE)

\* MDEVParentDevice / VFIOParentDevice . IsVGPUTypeAvailable
IsVGPUTypeAvailable(vfio, c, f, p, t) ==
    IF vfio
    THEN IF Fails(c, f, "read")
         THEN Ret(Tick(c, "read"), Err("IsVGPUTypeAvailable", t, 0), FALSE)
         ELSE Ret(Tick(c, "read"), NoErr, t \in CreatableTypesFile(vfio, c.k, p))
    ELSE LET r == GetAvailableVGPUInstances(vfio, c, f, p, t)
         IN  IF ~IsNil(r.err)
             THEN Ret(r.c, Err("IsVGPUTypeAvailable", t, 0), FALSE)
             ELSE Ret(r.c, NoErr, r.val > 0)

\* MDEVParentDevice / VFIOParentDevice . CreateVGPUDevice: the write to the
\* create file (mdev) or to current_vgpu_type (VFIO)
CreateVGPUDevice(vfio, c, f, p, t) ==
    LET c1 == Tick(c, "create")
        rejected ==
            \/ Fails(c, f, "create")
            \/ IF vfio THEN t \notin CreatableTypesFile(vfio, c.k, p)
                       ELSE \/ t \notin SupportedTypes(p)
                            \/ AvailableInstancesFile(vfio, c.k, p, t) <= 0
    IN  IF rejected
        THEN Ret(Logged(c1, "create", p, t, FALSE, 0), Err("CreateVGPUDevice", t, 0), FALSE)
        ELSE Ret(Logged([c1 EXCEPT !.k[p] = IF vfio THEN <<t>> ELSE Append(@, t)],
                        "create", p, t, TRUE, 0),
                 NoErr, TRUE)

RECURSIVE RemoveFirst(_, _)
RemoveFirst(s, t) ==
    IF s = <<>> THEN <<>>
    ELSE IF Head(s) = t THEN Tail(s)
    ELSE <<Head(s)>> \o RemoveFirst(Tail(s), t)

\* MDEVDevice / VFIODevice . Delete: the write to the remove file (mdev) or
\* of 0 to current_vgpu_type (VFIO)
Delete(c, f, dev) ==
    LET c1 == Tick(c, "delete")
    IN  IF Fails(c, f, "delete")
        THEN Ret(Logged(c1, "delete", dev.parent, dev.type, FALSE, 0),
                 Err("Delete", dev.type, 0), FALSE)
        ELSE Ret(Logged([c1 EXCEPT !.k[dev.parent] = RemoveFirst(@, dev.type)],
                        "delete", dev.parent, dev.type, TRUE, 0),
                 NoErr, TRUE)

-----------------------------------------------------------------------------
(* VGPUConfig: a Go map from type name to count, here a function whose     *)
(* domain is the set of keys.  A Go map is ranged over in an unspecified   *)
(* order: every loop over a map is run for every order of its keys.        *)

RECURSIVE Perms(_)
Perms(S) ==
    IF S = {} THEN {<<>>}
    ELSE UNION {{<<x>> \o q : q \in Perms(S \ {x})} : x \in S}

\* m[k] = v of a Go map
Put(m, key, v) == [t \in DOMAIN m \cup {key} |-> IF t = key THEN v ELSE m[t]]

\* Contains with the comparison off by one
MutContains(v, vgpuType) ==
    IF vgpuType \notin DOMAIN v THEN FALSE ELSE v[vgpuType] > 1

Contains(v, vgpuType) ==
    IF vgpuType \notin DOMAIN v THEN FALSE ELSE v[vgpuType] > 0

Equals(v, config) ==
    /\ Cardinality(DOMAIN v) = Cardinality(DOMAIN config)
    /\ \A key \in DOMAIN v : Contains(config, key) /\ v[key] = config[key]

\* min that forgets the second argument
MutMin(a, b) == a

min(a, b) == IF a < b THEN a ELSE b

-----------------------------------------------------------------------------
(* The allocation / reconciliation engine.                                 *)

\* the parents backed by the physical function, in enumeration order
ParentsOf(allParents, gpu) ==
    SelectSeq(allParents, LAMBDA p : GetPhysicalFunction(p) = gpu)

\* the loop of ClearVGPUConfig without the comparison of physical functions
RECURSIVE MutDeleteDevices(_, _, _, _, _)
MutDeleteDevices(c, f, vgpuDevs, i, gpu) ==
    IF i > Len(vgpuDevs) THEN c
    ELSE LET r == Delete(c, f, vgpuDevs[i])
         IN  IF ~IsNil(r.err) THEN Failed(r.c, Err("Delete", vgpuDevs[i].type, gpu))
             ELSE MutDeleteDevices(r.c, f, vgpuDevs, i + 1, gpu)

\* the loop of ClearVGPUConfig over the devices enumerated
RECURSIVE DeleteDevices(_, _, _, _, _)
DeleteDevices(c, f, vgpuDevs, i, gpu) ==
    IF i > Len(vgpuDevs) THEN c
    ELSE IF gpu = GetPhysicalFunction(vgpuDevs[i].parent)
    THEN LET r == Delete(c, f, vgpuDevs[i])
         IN  IF ~IsNil(r.err) THEN Failed(r.c, Err("Delete", vgpuDevs[i].type, gpu))
             ELSE DeleteDevices(r.c, f, vgpuDevs, i + 1, gpu)
    ELSE DeleteDevices(c, f, vgpuDevs, i + 1, gpu)

\* ClearVGPUConfig that returns nil when a Delete failed
MutClearVGPUConfig(c, f, gpu) ==
    LET vgpuDevs == GetAllDevices(GetGPUByIndex(c, f, gpu).c, f)
    IN  [DeleteDevices(vgpuDevs.c, f, vgpuDevs.val, 1, gpu) EXCEPT !.err = NoErr]

ClearVGPUConfig(c, f, gpu) ==
    LET device == GetGPUByIndex(c, f, gpu)
    IN  IF ~IsNil(device.err) THEN Failed(device.c, Err("GetGPUByIndex", NoType, gpu))
        ELSE LET vgpuDevs == GetAllDevices(device.c, f)
             IN  IF ~IsNil(vgpuDevs.err)
                 THEN Failed(vgpuDevs.c, Err("GetAllDevices", NoType, gpu))
                 ELSE DeleteDevices(vgpuDevs.c, f, vgpuDevs.val, 1, gpu)

\* for i := 0; i < numToCreate; i++ { parent.CreateVGPUDevice(...) }
RECURSIVE CreateN(_, _, _, _, _, _)
CreateN(vfio, c, f, parent, key, numToCreate) ==
    IF numToCreate <= 0 THEN c
    ELSE LET r == CreateVGPUDevice(vfio, c, f, parent, key)
         IN  IF ~IsNil(r.err) THEN Failed(r.c, Err("CreateVGPUDevice", key, parent))
             ELSE CreateN(vfio, r.c, f, parent, key, numToCreate - 1)

\* the check of remainingToCreate left out
MutExceededCapacity(c, remainingToCreate, key, val) == c

\* if remainingToCreate > 0 { return "failed to create <val> <key> ..." }
ExceededCapacity(c, remainingToCreate, key, val) ==
    IF remainingToCreate > 0 THEN Failed(c, Err("CapacityExceeded", key, val)) ELSE c

\* GetVGPUConfig: the tally loop, vgpuConfig[vgpuDev.MDEVType]++
RECURSIVE TallyFrom(_, _, _, _)
TallyFrom(vgpuDevs, i, gpu, vgpuConfig) ==
    IF i > Len(vgpuDevs) THEN vgpuConfig
    ELSE IF gpu = GetPhysicalFunction(vgpuDevs[i].parent)
    THEN LET t == vgpuDevs[i].type
             n == IF t \in DOMAIN vgpuConfig THEN vgpuConfig[t] ELSE 0
         IN  TallyFrom(vgpuDevs, i + 1, gpu, Put(vgpuConfig, t, n + 1))
    ELSE TallyFrom(vgpuDevs, i + 1, gpu, vgpuConfig)

GetVGPUConfig(vfio, c, f, gpu) ==
    IF vfio THEN [c EXCEPT !.val = EmptyConfig]
    ELSE LET device == GetGPUByIndex(c, f, gpu)
         IN  IF ~IsNil(device.err)
             THEN Failed(device.c, Err("GetGPUByIndex", NoType, gpu))
             ELSE LET vgpuDevs == GetAllDevices(device.c, f)
                  IN  IF ~IsNil(vgpuDevs.err)
                      THEN Failed(vgpuDevs.c, Err("GetAllDevices", NoType, gpu))
                      ELSE [vgpuDevs.c EXCEPT
                              !.val = TallyFrom(vgpuDevs.val, 1, gpu, EmptyConfig)]

\* SetVGPUConfig, Sanitizing: the loop over the requested config, and the
\* else-branch of its body, which tries the name without its suffix
RECURSIVE Sanitize(_, _, _, _, _, _, _, _)
RECURSIVE SanitizeStripped(_, _, _, _, _, _, _, _)
Sanitize(vfio, c, f, parent0, config, order, j, gpu) ==
    IF j > Len(order) THEN c
    ELSE LET key == order[j]
             keyAvailable == IsVGPUTypeAvailable(vfio, c, f, parent0, key)
             c1 == Checked(keyAvailable, parent0, key)
         IN  IF IsNil(keyAvailable.err) /\ keyAvailable.val
             THEN Sanitize(vfio, [c1 EXCEPT !.san = Put(@, key, config[key])],
                           f, parent0, config, order, j + 1, gpu)
             ELSE SanitizeStripped(vfio, c1, f, parent0, config, order, j, gpu)

SanitizeStripped(vfio, c, f, parent0, config, order, j, gpu) ==
    LET key == order[j]
        strippedKey == stripVGPUConfigSuffix(key)
        strippedKeyAvailable == IsVGPUTypeAvailable(vfio, c, f, parent0, strippedKey)
        c2 == Checked(strippedKeyAvailable, parent0, strippedKey)
    IN  IF IsNil(strippedKeyAvailable.err) /\ strippedKeyAvailable.val
        THEN Sanitize(vfio, [c2 EXCEPT !.san = Put(@, strippedKey, config[key])],
                      f, parent0, config, order, j + 1, gpu)
        ELSE Failed(c2, Err("Unsupported", key, gpu))

\* the instances of a type a parent can still take, as its files report it
Available(vfio, k, p, t) ==
    IF vfio THEN (IF t \in CreatableTypesFile(vfio, k, p) THEN 1 ELSE 0)
    ELSE IF t \notin SupportedTypes(p) THEN 0
    ELSE AvailableInstancesFile(vfio, k, p, t)

HeldOn(k, p, t) == Cardinality({i \in DOMAIN k[p] : k[p][i] = t})

RECURSIVE TotalAvailable(_, _, _, _, _)
TotalAvailable(vfio, k, ps, i, t) ==
    IF i > Len(ps) THEN 0
    ELSE Available(vfio, k, ps[i], t) + TotalAvailable(vfio, k, ps, i + 1, t)

RECURSIVE TotalHeld(_, _, _, _)
TotalHeld(k, ps, i, t) ==
    IF i > Len(ps) THEN 0 ELSE HeldOn(k, ps[i], t) + TotalHeld(k, ps, i + 1, t)

\* trace entry at the start of the creation of val instances of key: what
\* the parents of the GPU hold of it and what they can still take
Begin(vfio, c, gpu, key, val) ==
    LET ps == ParentsOf([i \in ParentIds |-> i], gpu)
    IN  [c EXCEPT !.log = Append(@, [op |-> "begin", parent |-> 0, type |-> key,
                                     ok |-> TRUE, val |-> val,
                                     total |-> TotalAvailable(vfio, c.k, ps, 1, key),
                                     have |-> TotalHeld(c.k, ps, 1, key)])]

\* SetVGPUConfig, Creating: the loop over the parents for one sanitized entry
RECURSIVE SetCreateOnParents(_, _, _, _, _, _, _, _, _)
SetCreateOnParents(vfio, c, f, parents, i, key, val, remainingToCreate, gpu) ==
    IF i > Len(parents) \/ remainingToCreate = 0
    THEN ExceededCapacity(c, remainingToCreate, key, val)
    ELSE LET parent == parents[i]
             supported == IsVGPUTypeAvailable(vfio, c, f, parent, key)
             c0 == Checked(supported, parent, key)
         IN  IF ~IsNil(supported.err)
             THEN Failed(c0, Err("IsVGPUTypeAvailable", key, gpu))
             ELSE IF ~supported.val
             THEN Failed(c0, Err("NotSupported", key, gpu))
             ELSE
             LET available == GetAvailableVGPUInstances(vfio, c0, f, parent, key)
                 c1 == Logged(available.c, "avail", parent, key,
                              IsNil(available.err), available.val)
             IN  IF ~IsNil(available.err)
                 THEN Failed(c1, Err("GetAvailableVGPUInstances", key, gpu))
                 ELSE IF available.val <= 0
                 THEN SetCreateOnParents(vfio, c1, f, parents, i + 1, key, val,
                                         remainingToCreate, gpu)
                 ELSE LET numToCreate == min(remainingToCreate, available.val)
                          c2 == CreateN(vfio, c1, f, parent, key, numToCreate)
                      IN  IF ~IsNil(c2.err) THEN c2
                          ELSE SetCreateOnParents(vfio, c2, f, parents, i + 1, key, val,
                                                  remainingToCreate - numToCreate, gpu)

\* SetVGPUConfig, Creating: the loop over the sanitized config
RECURSIVE SetCreateAll(_, _, _, _, _, _, _, _)
SetCreateAll(vfio, c, f, parents, sanitizedConfig, order, j, gpu) ==
    IF j > Len(order) THEN c
    ELSE LET key == order[j]
             val == sanitizedConfig[key]
             c1 == SetCreateOnParents(vfio, Begin(vfio, c, gpu, key, val), f, parents, 1,
                                      key, val, val, gpu)
         IN  IF ~IsNil(c1.err) THEN c1
             ELSE SetCreateAll(vfio, c1, f, parents, sanitizedConfig, order, j + 1, gpu)

\* SetVGPUConfig of the manager built on the combined backend: the set of
\* contexts it can end in, one for each order the two maps are ranged over
SetVGPUConfig(vfio, c, f, gpu, config) ==
    LET device == GetGPUByIndex(c, f, gpu)
    IN  IF ~IsNil(device.err)
        THEN {Failed(device.c, Err("GetGPUByIndex", NoType, gpu))}
        ELSE
        LET allParents == GetAllParentDevices(device.c, f)
        IN  IF ~IsNil(allParents.err)
            THEN {Failed(allParents.c, Err("GetAllParentDevices", NoType, gpu))}
            ELSE
            LET parents == ParentsOf(allParents.val, gpu)
            IN  IF Len(parents) = 0
                THEN {Failed(allParents.c, Err("NoParents", NoType, gpu))}
                ELSE UNION {
                    LET s == Sanitize(vfio, [allParents.c EXCEPT !.san = EmptyConfig], f,
                                      parents[1], config, o1, 1, gpu)
                    IN  IF ~IsNil(s.err) THEN {s}
                        ELSE LET cl == ClearVGPUConfig(s, f, gpu)
                             IN  IF ~IsNil(cl.err)
                                 THEN {Failed(cl, Err("ClearVGPUConfig", NoType, gpu))}
                                 ELSE {SetCreateAll(vfio, cl, f, parents, cl.san, o2, 1, gpu)
                                         : o2 \in Perms(DOMAIN cl.san)}
                    : o1 \in Perms(DOMAIN config)}

\* CreateVGPUDevices: the loop over the parents of the physical function
RECURSIVE CreateOnParents(_, _, _, _, _, _, _, _)
CreateOnParents(vfio, c, f, parents, i, vgpuType, count, remainingToCreate) ==
    IF i > Len(parents) \/ remainingToCreate = 0
    THEN ExceededCapacity(c, remainingToCreate, vgpuType, count)
    ELSE LET parent == parents[i]
             available == GetAvailableVGPUInstances(vfio, c, f, parent, vgpuType)
             c1 == Logged(available.c, "avail", parent, vgpuType,
                          IsNil(available.err), available.val)
         IN  IF ~IsNil(available.err)
             THEN Failed(c1, Err("GetAvailableVGPUInstances", vgpuType, count))
             ELSE IF available.val <= 0
             THEN CreateOnParents(vfio, c1, f, parents, i + 1, vgpuType, count,
                                  remainingToCreate)
             ELSE LET numToCreate == min(remainingToCreate, available.val)
                      c2 == CreateN(vfio, c1, f, parent, vgpuType, numToCreate)
                  IN  IF ~IsNil(c2.err) THEN c2
                      ELSE CreateOnParents(vfio, c2, f, parents, i + 1, vgpuType, count,
                                           remainingToCreate - numToCreate)

CreateVGPUDevices(vfio, c, f, gpu, vgpuType, count) ==
    LET allParents == GetAllParentDevices(Begin(vfio, c, gpu, vgpuType, count), f)
    IN  IF ~IsNil(allParents.err)
        THEN Failed(allParents.c, Err("GetAllParentDevices", vgpuType, count))
        ELSE LET parents == ParentsOf(allParents.val, gpu)
             IN  IF Len(parents) = 0
                 THEN Failed(allParents.c, Err("NoParents", vgpuType, count))
                 ELSE CreateOnParents(vfio, allParents.c, f, parents, 1, vgpuType,
                                      count, count)

-----------------------------------------------------------------------------
(* SetVGPUConfig of the manager built on NVML and CreateVGPUDevices.       *)

\* nvmlDevice.GetSupportedVgpus: the vendor names, in some order
GetSupportedVgpus(c, f, gpu) ==
    IF Fails(c, f, "read")
    THEN {Ret(Tick(c, "read"), Err("GetSupportedVgpus", NoType, gpu), <<>>)}
    ELSE {Ret(Tick(c, "read"), NoErr, l) : l \in Perms(VendorNames(gpu))}

\* nvmlDevice.GetCreatableVgpus: the types some parent of the GPU has room for
GetCreatableVgpus(vfio, c, f, gpu) ==
    IF Fails(c, f, "read")
    THEN Ret(Tick(c, "read"), Err("GetCreatableVgpus", NoType, gpu), {})
    ELSE Ret(Tick(c, "read"), NoErr,
             {rawName \in VendorNames(gpu) :
                \E p \in ParentIds :
                   /\ GetPhysicalFunction(p) = gpu
                   /\ AvailableInstancesFile(vfio, c.k, p, parseVGPUTypeName(rawName)) > 0})

\* the scan of supportedVGPUs for key or strippedKey: the name to use, or NoType
RECURSIVE FindSupported(_, _, _, _)
FindSupported(supportedVGPUs, i, key, strippedKey) ==
    IF i > Len(supportedVGPUs) THEN NoType
    ELSE LET name == parseVGPUTypeName(supportedVGPUs[i])
         IN  IF name = key THEN key
             ELSE IF name = strippedKey THEN strippedKey
             ELSE FindSupported(supportedVGPUs, i + 1, key, strippedKey)

RECURSIVE SanitizeNVML(_, _, _, _, _, _)
SanitizeNVML(c, supportedVGPUs, config, order, j, gpu) ==
    IF j > Len(order) THEN c
    ELSE LET key == order[j]
             found == FindSupported(supportedVGPUs, 1, key, stripVGPUConfigSuffix(key))
         IN  IF found = NoType THEN Failed(c, Err("Unsupported", key, gpu))
             ELSE SanitizeNVML([c EXCEPT !.san = Put(@, found, config[key])],
                               supportedVGPUs, config, order, j + 1, gpu)

RECURSIVE CreateAllNVML(_, _, _, _, _, _, _)
CreateAllNVML(vfio, c, f, gpu, sanitizedConfig, order, j) ==
    IF j > Len(order) THEN c
    ELSE LET key == order[j]
             val == sanitizedConfig[key]
             creatableVGPUs == GetCreatableVgpus(vfio, c, f, gpu)
         IN  IF ~IsNil(creatableVGPUs.err)
             THEN Failed(creatableVGPUs.c, Err("GetCreatableVgpus", key, val))
             ELSE IF \A rawName \in creatableVGPUs.val : parseVGPUTypeName(rawName) # key
             THEN Failed(creatableVGPUs.c, Err("NotCreatable", key, val))
             ELSE LET c1 == CreateVGPUDevices(vfio, creatableVGPUs.c, f, gpu, key, val)
                  IN  IF ~IsNil(c1.err) THEN c1
                      ELSE CreateAllNVML(vfio, c1, f, gpu, sanitizedConfig, order, j + 1)

SetVGPUConfigNVML(vfio, c, f, gpu, config) ==
    LET device == GetGPUByIndex(c, f, gpu)
    IN  IF ~IsNil(device.err)
        THEN {Failed(device.c, Err("GetGPUByIndex", NoType, gpu))}
        ELSE UNION {
            IF ~IsNil(supportedVGPUs.err)
            THEN {Failed(supportedVGPUs.c, Err("GetSupportedVgpus", NoType, gpu))}
            ELSE UNION {
                LET s == SanitizeNVML([supportedVGPUs.c EXCEPT !.san = EmptyConfig],
                                      supportedVGPUs.val, config, o1, 1, gpu)
                IN  IF ~IsNil(s.err) THEN {s}
                    ELSE LET cl == ClearVGPUConfig(s, f, gpu)
                         IN  IF ~IsNil(cl.err)
                             THEN {Failed(cl, Err("ClearVGPUConfig", NoType, gpu))}
                             ELSE {CreateAllNVML(vfio, cl, f, gpu, cl.san, o2, 1)
                                     : o2 \in Perms(DOMAIN cl.san)}
                : o1 \in Perms(DOMAIN config)}
            : supportedVGPUs \in GetSupportedVgpus(device.c, f, gpu)}

-----------------------------------------------------------------------------
(* The apply and assert commands over the selected configuration of the    *)
(* configuration file.                                                     *)

GPUList == <<0, 1>>

MatchesDeviceFilter(vs, deviceID) ==
    IF Len(vs.deviceFilter) = 0 THEN TRUE
    ELSE \E i \in DOMAIN vs.deviceFilter : vs.deviceFilter[i] = deviceID

MatchesAllDevices(vs) == vs.devices.all

MatchesDevices(vs, index) ==
    \/ \E i \in DOMAIN vs.devices.list : vs.devices.list[i] = index
    \/ MatchesAllDevices(vs)

Visited(c, c0, vc, i, current) ==
    [c EXCEPT !.visits = Append(@, [gpu |-> i, current |-> current,
                                    desired |-> vc.vgpuDevices,
                                    from |-> Len(c0.log), to |-> Len(c.log)])]

\* the function apply.VGPUConfig hands to the walk
ApplyToGPU(vfio, c, f, vc, i) ==
    LET current == GetVGPUConfig(vfio, c, f, i)
    IN  IF ~IsNil(current.err)
        THEN {Failed(current, Err("GetVGPUConfig", NoType, i))}
        ELSE IF Equals(current.val, vc.vgpuDevices)
        THEN {Visited(current, c, vc, i, current.val)}
        ELSE {Visited(IF IsNil(r.err) THEN r ELSE Failed(r, Err("SetVGPUConfig", r.err.type, i)),
                      c, vc, i, current.val)
                : r \in SetVGPUConfig(vfio, current, f, i, vc.vgpuDevices)}

\* WalkSelectedVGPUConfigForEachGPU for apply, from entry e and GPU number n
\* of the enumeration, over every context the walk can have reached
RECURSIVE ApplyWalk(_, _, _, _, _, _)
ApplyWalk(vfio, cs, f, vgpuConfig, e, n) ==
    IF e > Len(vgpuConfig) THEN cs
    ELSE IF n > Len(GPUList) THEN ApplyWalk(vfio, cs, f, vgpuConfig, e + 1, 1)
    ELSE LET vc == vgpuConfig[e]
             i == GPUList[n]
             step(c) ==
                 IF ~IsNil(c.err) THEN {c}
                 ELSE IF ~MatchesDeviceFilter(vc, DeviceIDOf(i)) THEN {c}
                 ELSE IF ~MatchesDevices(vc, i) THEN {c}
                 ELSE ApplyToGPU(vfio, c, f, vc, i)
         IN  ApplyWalk(vfio, UNION {step(c) : c \in cs}, f, vgpuConfig, e, n + 1)

GetGPUs(c, f) ==
    IF Fails(c, f, "read")
    THEN Failed(Tick(c, "read"), Err("GetGPUs", NoType, 0))
    ELSE Tick(c, "read")

\* apply.VGPUConfig
ApplyVGPUConfig(vfio, c, f, vgpuConfig) ==
    LET gpus == GetGPUs(c, f)
    IN  IF ~IsNil(gpus.err) THEN {gpus}
        ELSE ApplyWalk(vfio, {gpus}, f, vgpuConfig, 1, 1)

\* the function assert.VGPUConfig hands to the walk
AssertOnGPU(vfio, c, f, vc, i) ==
    LET current == GetVGPUConfig(vfio, c, f, i)
    IN  IF ~IsNil(current.err)
        THEN Failed(current, Err("GetVGPUConfig", NoType, i))
        ELSE [current EXCEPT !.matched[i] = Equals(current.val, vc.vgpuDevices)]

RECURSIVE AssertWalk(_, _, _, _, _, _)
AssertWalk(vfio, c, f, vgpuConfig, e, n) ==
    IF e > Len(vgpuConfig) \/ ~IsNil(c.err) THEN c
    ELSE IF n > Len(GPUList) THEN AssertWalk(vfio, c, f, vgpuConfig, e + 1, 1)
    ELSE LET vc == vgpuConfig[e]
             i == GPUList[n]
         IN  IF ~MatchesDeviceFilter(vc, DeviceIDOf(i)) \/ ~MatchesDevices(vc, i)
             THEN AssertWalk(vfio, c, f, vgpuConfig, e, n + 1)
             ELSE AssertWalk(vfio, AssertOnGPU(vfio, c, f, vc, i), f, vgpuConfig, e, n + 1)

\* assert.VGPUConfig
AssertVGPUConfig(vfio, c, f, vgpuConfig) ==
    LET gpus == GetGPUs(c, f)
    IN  IF ~IsNil(gpus.err) THEN gpus
        ELSE LET w == AssertWalk(vfio, GetGPUs(gpus, f), f, vgpuConfig, 1, 1)
             IN  IF ~IsNil(w.err) THEN w
                 ELSE IF \E g \in GPUs : ~w.matched[g]
                 THEN Failed(w, Err("NotAllMatch", NoType, 0))
                 ELSE w

-----------------------------------------------------------------------------
(* The inputs: configs handed to the manager and the configuration file.   *)

One(t, n) == [x \in {t} |-> n]

Two(t, n, u, m) == [x \in {t, u} |-> IF x = t THEN n ELSE m]

\* every config passed VGPUConfigSpec.UnmarshalJSON: positive counts, names
\* that parse, MIG-backed and time-sliced types not mixed
Configs ==
    { EmptyConfig,
      One(T4_1Q, T4Cap + 2),
      One(T4_1Q, 2 * T4Cap + 4),
      One(DC_1_24Q, 1),
      One(DC_1_24QGFX, 1),
      One(DC_2_48Q, 1),
      Two(DC_1_24Q, 1, DC_1_24QGFX, 2),
      Two(DC_1_24Q, 2, DC_1_24QME, 1),
      Two(DC_1_24Q, 2, DC_1_24QME, 2) }

CreateTypes == {T4_1Q, DC_1_24Q, DC_1_24QME, DC_2_48Q}

CreateCounts == {1, T4Cap + 2, 2 * T4Cap + 4}

AllDevices == [all |-> TRUE, list |-> <<>>]

Devices(list) == [all |-> FALSE, list |-> list]

Entry(deviceFilter, devices, vgpuDevices) ==
    [deviceFilter |-> deviceFilter, devices |-> devices, vgpuDevices |-> vgpuDevices]

\* vgpu-configs of the configuration file: name -> VGPUConfigSpecSlice
ConfigFile ==
    [ t4      |-> << Entry(<<>>, Devices(<<0>>), One(T4_1Q, T4Cap + 2)) >>,
      dc      |-> << Entry(<<>>, AllDevices, One(DC_1_24Q, 1)) >>,
      gfx     |-> << Entry(<<>>, AllDevices, One(DC_1_24QGFX, 1)) >>,
      mixed   |-> << Entry(<<"0x1EB8">>, AllDevices, One(T4_1Q, T4Cap + 2)),
                     Entry(<<"0x2BB5", "0x2BB6">>, AllDevices, One(DC_1_24Q, 2)) >>,
      collide |-> << Entry(<<>>, Devices(<<1>>), Two(DC_1_24Q, 1, DC_1_24QGFX, 2)) >>,
      twice   |-> << Entry(<<>>, AllDevices, One(DC_1_24Q, 1)),
                     Entry(<<>>, Devices(<<1>>), One(DC_1_24QME, 1)) >> ]

ConfigNames == DOMAIN ConfigFile

-----------------------------------------------------------------------------
(* SetVGPUConfigforVFIO: the manager that writes the virtual functions     *)
(* itself.                                                                 *)

\* the loop "for remainingToCreate > 0" for one key: virtfn0, virtfn1, ...
RECURSIVE SetVFIOWrites(_, _, _, _, _, _)
SetVFIOWrites(c, f, vfs, VFnum, key, remainingToCreate) ==
    IF remainingToCreate <= 0 THEN c
    ELSE IF VFnum + 1 > Len(vfs)
    THEN Failed(c, Err("getVGPUTypeNumberforVFIO", key, VFnum))
    ELSE IF Fails(c, f, "read") \/ key \notin CreatableTypesFile(TRUE, c.k, vfs[VFnum + 1])
    THEN Failed(Tick(c, "read"), Err("getVGPUTypeNumberforVFIO", key, VFnum))
    ELSE IF Fails(c, f, "create")
    THEN Failed(Logged(Tick(Tick(c, "read"), "create"), "create", vfs[VFnum + 1],
                       key, FALSE, 0),
                Err("WriteFile", key, VFnum))
    ELSE SetVFIOWrites(Logged([Tick(Tick(c, "read"), "create")
                                  EXCEPT !.k[vfs[VFnum + 1]] = <<key>>],
                              "create", vfs[VFnum + 1], key, TRUE, 0),
                       f, vfs, VFnum + 1, key, remainingToCreate - 1)

\* the loop "for key, val := range config"
RECURSIVE SetVFIOAll(_, _, _, _, _, _)
SetVFIOAll(c, f, vfs, config, order, j) ==
    IF j > Len(order) THEN c
    ELSE LET c1 == SetVFIOWrites(c, f, vfs, 0, order[j], config[order[j]])
         IN  IF ~IsNil(c1.err) THEN c1
             ELSE SetVFIOAll(c1, f, vfs, config, order, j + 1)

\* SetVGPUConfigforVFIO.  Its ClearVGPUConfig deletes mediated devices, of
\* which a host with virtual functions has none, and sriov-manage -e leaves
\* the virtual functions as they are.
SetVGPUConfigforVFIO(c, f, gpu, config) ==
    LET nvdevice == GetGPUByIndex(c, f, gpu)
    IN  IF ~IsNil(nvdevice.err)
        THEN {Failed(nvdevice.c, Err("GetGPUByIndex", NoType, gpu))}
        ELSE {SetVFIOAll(nvdevice.c, f, ParentsOf([i \in ParentIds |-> i], gpu),
                         config, order, 1) : order \in Perms(DOMAIN config)}

-----------------------------------------------------------------------------
(* The state machine: one action for each operation of the manager and     *)
(* each command.  last records the call just made and what it returned.    *)

\* the injected fault if the call reached it
Hit(c, f) == IF f = NoFault \/ c.n[f.kind] < f.at THEN NoFault ELSE f

Outcome(op, gpu, name, config, f, pre, c) ==
    [op |-> op, gpu |-> gpu, name |-> name, config |-> config,
     hit |-> Hit(c, f), err |-> c.err, pre |-> pre, log |-> c.log,
     san |-> c.san, val |-> c.val, visits |-> c.visits,
     repeat |-> /\ last.op = op /\ last.gpu = gpu /\ last.name = name
                /\ last.config = config /\ last.hit = NoFault,
     verify |-> /\ op = "assert" /\ last.op = "apply" /\ last.name = name
                /\ last.hit = NoFault /\ IsNil(last.err)]

\* last before any call
NoCall ==
    [op |-> "init", gpu |-> 0, name |-> "", config |-> EmptyConfig,
     hit |-> NoFault, err |-> NoErr, pre |-> EmptyKernel, log |-> <<>>,
     san |-> EmptyConfig, val |-> EmptyConfig, visits |-> <<>>,
     repeat |-> FALSE, verify |-> FALSE]

\* the manager has been constructed over the mediated-device backend and
\* no call has been made
NoCalls == isVFIOMode = FALSE /\ vgpus = EmptyKernel /\ last = NoCall /\ calls = 0

Init ==
    /\ isVFIOMode \in BOOLEAN
    /\ vgpus = EmptyKernel
    /\ last = NoCall
    /\ calls = 0
    /\ NoPasses
    /\ NoDaemon
    /\ NoInput

Called ==
    /\ calls < MaxCalls
    /\ calls' = calls + 1
    /\ UNCHANGED <<passVars, syncVars, pureVars>>

CallSetVGPUConfig ==
    /\ Called
    /\ \E gpu \in GPUs, config \in Configs, f \in SetFaults :
        \E c \in SetVGPUConfig(isVFIOMode, NewContext(vgpus), f, gpu, config) :
            /\ vgpus' = c.k
            /\ last' = Outcome("SetVGPUConfig", gpu, "", config, f, vgpus, c)
            /\ UNCHANGED isVFIOMode

CallSetVGPUConfigforVFIO ==
    /\ Called
    /\ isVFIOMode
    /\ \E gpu \in GPUs, config \in Configs, f \in {x \in Faults : x.kind # "delete"} :
        \E c \in SetVGPUConfigforVFIO(NewContext(vgpus), f, gpu, config) :
            /\ vgpus' = c.k
            /\ last' = Outcome("SetVGPUConfigforVFIO", gpu, "", config, f, vgpus, c)
            /\ UNCHANGED isVFIOMode

CallSetVGPUConfigNVML ==
    /\ Called
    /\ \E gpu \in GPUs, config \in Configs, f \in Faults :
        \E c \in SetVGPUConfigNVML(isVFIOMode, NewContext(vgpus), f, gpu, config) :
            /\ vgpus' = c.k
            /\ last' = Outcome("SetVGPUConfigNVML", gpu, "", config, f, vgpus, c)
            /\ UNCHANGED isVFIOMode

CallCreateVGPUDevices ==
    /\ Called
    /\ \E gpu \in GPUs, vgpuType \in CreateTypes, count \in CreateCounts, f \in Faults :
        LET c == CreateVGPUDevices(isVFIOMode, NewContext(vgpus), f, gpu, vgpuType, count)
        IN  /\ vgpus' = c.k
            /\ last' = Outcome("CreateVGPUDevices", gpu, "", One(vgpuType, count), f, vgpus, c)
            /\ UNCHANGED isVFIOMode

CallClearVGPUConfig ==
    /\ Called
    /\ \E gpu \in GPUs, f \in Faults :
        LET c == ClearVGPUConfig(NewContext(vgpus), f, gpu)
        IN  /\ vgpus' = c.k
            /\ last' = Outcome("ClearVGPUConfig", gpu, "", EmptyConfig, f, vgpus, c)
            /\ UNCHANGED isVFIOMode

CallGetVGPUConfig ==
    /\ Called
    /\ \E gpu \in GPUs, f \in Faults :
        LET c == GetVGPUConfig(isVFIOMode, NewContext(vgpus), f, gpu)
        IN  /\ last' = Outcome("GetVGPUConfig", gpu, "", EmptyConfig, f, vgpus, c)
            /\ UNCHANGED <<isVFIOMode, vgpus>>

ApplyCmd ==
    /\ Called
    /\ \E name \in ConfigNames, f \in Faults :
        \E c \in ApplyVGPUConfig(isVFIOMode, NewContext(vgpus), f, ConfigFile[name]) :
            /\ vgpus' = c.k
            /\ last' = Outcome("apply", 0, name, EmptyConfig, f, vgpus, c)
            /\ UNCHANGED isVFIOMode

AssertCmd ==
    /\ Called
    /\ \E name \in ConfigNames, f \in Faults :
        LET c == AssertVGPUConfig(isVFIOMode, NewContext(vgpus), f, ConfigFile[name])
        IN  /\ last' = Outcome("assert", 0, name, EmptyConfig, f, vgpus, c)
            /\ UNCHANGED <<isVFIOMode, vgpus>>

Next ==
    \/ CallSetVGPUConfig
    \/ CallSetVGPUConfigforVFIO
    \/ CallSetVGPUConfigNVML
    \/ CallCreateVGPUDevices
    \/ CallClearVGPUConfig
    \/ CallGetVGPUConfig
    \/ ApplyCmd
    \/ AssertCmd

Spec == Init /\ [][Next]_vars

-----------------------------------------------------------------------------
(* Properties.                                                             *)

AllTypes == CreateTypes \cup {DC_1_24QGFX}

ParentsOfGPU(gpu) == ParentsOf([i \in ParentIds |-> i], gpu)

\* live instances of a type whose physical function is the GPU
LiveCount(k, gpu, t) ==
    Cardinality({pi \in {<<p, i>> : p \in ParentIds, i \in 1 .. (2 * T4Cap + 4)} :
                    /\ GetPhysicalFunction(pi[1]) = gpu
                    /\ pi[2] \in DOMAIN k[pi[1]]
                    /\ k[pi[1]][pi[2]] = t})

LiveTypes(k, gpu) == {t \in AllTypes : LiveCount(k, gpu, t) > 0}

SameCounts(k1, k2, gpu) == \A t \in AllTypes : LiveCount(k1, gpu, t) = LiveCount(k2, gpu, t)

LogOf(op) == SelectSeq(last.log, LAMBDA e : e.op = op)

Writes == {i \in DOMAIN last.log : last.log[i].op \in {"delete", "create"}}

SetOps == {"SetVGPUConfig", "SetVGPUConfigNVML"}

\* C1: whenever SetVGPUConfig returns success the GPU holds, for every entry
\* (type, count) of the sanitized config, exactly count instances of the type;
\* whenever CreateVGPUDevices returns success it has added exactly count
C1_SuccessHoldsSanitizedCounts ==
    /\ (last.op \in SetOps /\ IsNil(last.err))
         => \A t \in DOMAIN last.san : LiveCount(vgpus, last.gpu, t) = last.san[t]
    /\ (last.op = "CreateVGPUDevices" /\ IsNil(last.err))
         => \A t \in DOMAIN last.config :
               LiveCount(vgpus, last.gpu, t)
                 = LiveCount(last.pre, last.gpu, t) + last.config[t]

C1_Witness ==
    /\ last.op \in SetOps
    /\ IsNil(last.err)
    /\ last.san = One(T4_1Q, T4Cap + 2)
    /\ LiveCount(vgpus, last.gpu, T4_1Q) = T4Cap + 2

\* what greedy creation in enumeration order creates: the parent of each
\* instance, in the order created
RECURSIVE GreedyPlan(_, _, _, _, _)
GreedyPlan(k, ps, i, t, remaining) ==
    IF i > Len(ps) \/ remaining = 0 THEN <<>>
    ELSE LET available == Available(isVFIOMode, k, ps[i], t)
             n == IF available <= 0 THEN 0
                  ELSE IF remaining < available THEN remaining ELSE available
         IN  [j \in 1 .. n |-> ps[i]] \o GreedyPlan(k, ps, i + 1, t, remaining - n)

\* C2: CreateVGPUDevices asks the parents of the GPU in enumeration order and
\* creates min(remaining, available) instances on each that reports
\* available > 0 before it asks the next; with two empty parents of T4Cap
\* each and T4Cap + 2 requested it creates T4Cap on the first, 2 on the second
\* and succeeds
C2_GreedyInEnumerationOrder ==
    (last.op = "CreateVGPUDevices" /\ last.hit = NoFault) =>
        \A t \in DOMAIN last.config :
            LET ps == ParentsOfGPU(last.gpu)
                asked == LogOf("avail")
                created == LogOf("create")
            IN  /\ Len(asked) <= Len(ps)
                /\ \A j \in DOMAIN asked :
                      /\ asked[j].parent = ps[j]
                      /\ asked[j].val > 0
                           => asked[j].val = Available(isVFIOMode, last.pre, ps[j], t)
                /\ \A j \in DOMAIN created : created[j].ok /\ created[j].type = t
                /\ [j \in DOMAIN created |-> created[j].parent]
                     = GreedyPlan(last.pre, ps, 1, t, last.config[t])
                /\ ( /\ t = T4_1Q /\ last.config[t] = T4Cap + 2 /\ ~isVFIOMode
                     /\ last.gpu = 0 /\ last.pre[1] = <<>> /\ last.pre[2] = <<>> )
                     => /\ IsNil(last.err)
                        /\ vgpus[1] = [j \in 1 .. T4Cap |-> T4_1Q]
                        /\ vgpus[2] = [j \in 1 .. 2 |-> T4_1Q]

C2_Witness ==
    /\ last.op = "CreateVGPUDevices" /\ last.hit = NoFault /\ ~isVFIOMode
    /\ last.config = One(T4_1Q, T4Cap + 2)
    /\ last.pre[1] = <<>> /\ last.pre[2] = <<>>
    /\ Len(vgpus[1]) = T4Cap /\ Len(vgpus[2]) = 2
    /\ IsNil(last.err)

\* C3: when the parents can take fewer instances of a type than requested,
\* creation creates every instance they can take, returns an error naming the
\* requested count and the type, and leaves the instances created in place
C3_CapacityExceededAfterCreatingAll ==
    (last.op \in {"SetVGPUConfig", "CreateVGPUDevices"} /\ last.hit = NoFault) =>
        \A i \in DOMAIN last.log :
            (last.log[i].op = "begin" /\ last.log[i].total < last.log[i].val) =>
                LET b == last.log[i]
                    made == {j \in DOMAIN last.log :
                                /\ j > i /\ last.log[j].op = "create"
                                /\ last.log[j].ok /\ last.log[j].type = b.type}
                IN  /\ Cardinality(made) = b.total
                    /\ last.err = Err("CapacityExceeded", b.type, b.val)
                    /\ LiveCount(vgpus, last.gpu, b.type) = b.have + b.total

\* C3 for CreateVGPUDevices alone
C3_CreateVGPUDevicesOnly ==
    last.op = "CreateVGPUDevices" => C3_CapacityExceededAfterCreatingAll

\* availability on the representative parent as SetVGPUConfig tests it
OnFirstParent(gpu, t) == Available(isVFIOMode, last.pre, ParentsOfGPU(gpu)[1], t) > 0

\* a name the GPU reports among its supported types
SupportedByGPU(gpu, t) == \E rawName \in VendorNames(gpu) : parseVGPUTypeName(rawName) = t

ClearedThrough ==
    \/ last.op = "ClearVGPUConfig" /\ IsNil(last.err)
    \/ /\ last.op \in SetOps
       /\ last.err.kind \notin {"GetGPUByIndex", "GetAllParentDevices", "NoParents",
                                "GetSupportedVgpus", "Unsupported", "ClearVGPUConfig"}

\* C5: Clearing issues Delete for every instance whose physical function is
\* the target GPU, whatever the config, and for no instance of another GPU
C5_ClearDeletesAllOfTargetOnly ==
    (last.op \in SetOps \cup {"ClearVGPUConfig"}) =>
        LET deleted == LogOf("delete")
        IN  /\ \A j \in DOMAIN deleted : GetPhysicalFunction(deleted[j].parent) = last.gpu
            /\ \A p \in ParentIds :
                  GetPhysicalFunction(p) # last.gpu => vgpus[p] = last.pre[p]
            /\ ClearedThrough =>
                  \A p \in ParentIds, t \in AllTypes :
                      GetPhysicalFunction(p) = last.gpu =>
                          Cardinality({j \in DOMAIN deleted :
                                          /\ deleted[j].parent = p
                                          /\ deleted[j].type = t
                                          /\ deleted[j].ok})
                            = HeldOn(last.pre, p, t)

C5_Witness ==
    /\ last.op \in SetOps /\ ClearedThrough
    /\ LiveTypes(last.pre, last.gpu) # {}
    /\ \E g \in GPUs : g # last.gpu /\ LiveTypes(last.pre, g) # {}
    /\ Len(LogOf("delete")) > 0

\* the config fits the GPU when it is empty: applied to the empty host it
\* succeeds
FromEmpty(gpu, config) ==
    SetVGPUConfig(isVFIOMode, NewContext(EmptyKernel), NoFault, gpu, config)

FitsEmpty(gpu, config) == \A c \in FromEmpty(gpu, config) : IsNil(c.err)

\* C6: from any starting state SetVGPUConfig with a config that fits the
\* empty GPU succeeds and leaves what it leaves on the empty GPU
C6_ConvergesFromAnyState ==
    ( /\ last.op = "SetVGPUConfig" /\ last.hit = NoFault
      /\ FitsEmpty(last.gpu, last.config) )
      => /\ IsNil(last.err)
         /\ \E c \in FromEmpty(last.gpu, last.config) : SameCounts(vgpus, c.k, last.gpu)

\* C7: applying the same config twice in a row leaves the per-type counts
\* the first application left
C7_ApplyTwiceSameCounts ==
    ( /\ last.op \in {"SetVGPUConfig", "apply"}
      /\ last.repeat /\ last.hit = NoFault )
      => \A gpu \in GPUs : SameCounts(vgpus, last.pre, gpu)

\* C8: an assert right after a successful apply of the same configuration
\* succeeds
C8_AssertAfterApplySucceeds ==
    (last.op = "assert" /\ last.verify /\ last.hit = NoFault) => IsNil(last.err)

\* C9: GetVGPUConfig returns, under either backend, exactly the number of
\* live instances of each type on the GPU and no entry for a type without one
C9_GetVGPUConfigIsExactTally ==
    (last.op = "GetVGPUConfig" /\ IsNil(last.err)) =>
        /\ DOMAIN last.val = LiveTypes(vgpus, last.gpu)
        /\ \A t \in DOMAIN last.val : last.val[t] = LiveCount(vgpus, last.gpu, t)

\* C9 for the mediated-device backend alone
C9_MdevOnly ==
    ~isVFIOMode => C9_GetVGPUConfigIsExactTally

\* C10: apply issues no Delete and no Create on a selected GPU whose
\* GetVGPUConfig already equals the desired vgpu-devices
C10_ApplySkipsGPUAlreadySet ==
    last.op = "apply" =>
        \A n \in DOMAIN last.visits :
            LET v == last.visits[n]
            IN  v.current = v.desired =>
                    \A j \in Writes :
                        (v.from < j /\ j <= v.to) =>
                            GetPhysicalFunction(last.log[j].parent) # v.gpu

C10_Witness ==
    /\ last.op = "apply"
    /\ \E n \in DOMAIN last.visits :
          /\ last.visits[n].current = last.visits[n].desired
          /\ last.visits[n].desired # EmptyConfig
          /\ LiveTypes(last.pre, last.visits[n].gpu) # {}

-----------------------------------------------------------------------------
(* Two reconciliation passes running concurrently in one process, one      *)
(* goroutine each.  Either both run VGPUDeviceManager.reconcileVGPUDevices *)
(* on one manager, or both run SetVGPUConfig on one nvlibVGPUConfigManager.*)
(* A step is one write to the kernel (the removal or the creation of one   *)
(* device) or the reads that precede it.  A device is known by its UUID:   *)
(* the removal of a device a pass enumerated fails when another pass has   *)
(* removed it since.                                                       *)

Passes == {1, 2}

Engines == {"reconcileVGPUDevices", "SetVGPUConfig"}

\* desiredTypes of the selected config (reconcileVGPUDevices)
DesiredTypeLists == {<<T4_1Q>>, <<DC_1_24Q>>, <<T4_1Q, DC_1_24Q>>}

\* gpu and config handed to SetVGPUConfig
PassConfigs == {One(T4_1Q, 2), One(DC_1_24Q, 3), One(DC_1_24QGFX, 1)}

Wants(e) ==
    IF e = "reconcileVGPUDevices"
    THEN {[gpu |-> 0, config |-> EmptyConfig, desiredTypes |-> d] : d \in DesiredTypeLists}
    ELSE {[gpu |-> g, config |-> cfg, desiredTypes |-> <<>>] : g \in GPUs, cfg \in PassConfigs}

\* the devices the host holds when the passes start
StartKernels ==
    {EmptyKernel, [EmptyKernel EXCEPT ![1] = <<T4_1Q, T4_1Q>>, ![3] = <<DC_1_24Q>>]}

Locals(want) ==
    [pc |-> "start", want |-> want, devs |-> <<>>, ring |-> <<>>, key |-> NoType,
     parents |-> <<>>, parent |-> 0, left |-> 0, remaining |-> 0,
     san |-> EmptyConfig, err |-> NoErr]

\* the UUIDs of the devices the host holds when the passes start
StartUUIDs(k) == [p \in ParentIds |-> [n \in DOMAIN k[p] |-> 10 * p + n]]

\* GetAllDevices: the devices under /sys/bus/mdev/devices, each with its
\* parent, its type and its UUID
RECURSIVE DevicesWithUUID(_, _, _)
DevicesWithUUID(k, ids, p) ==
    IF p > Len(ParentPF) THEN <<>>
    ELSE [n \in DOMAIN k[p] |-> [parent |-> p, type |-> k[p][n], uuid |-> ids[p][n]]]
         \o DevicesWithUUID(k, ids, p + 1)

\* the device is still there to be removed
Exists(ids, dev) == \E n \in DOMAIN ids[dev.parent] : ids[dev.parent][n] = dev.uuid

\* the UUIDs left after the removal of the device
Removed(ids, dev) ==
    [ids EXCEPT ![dev.parent] = SelectSeq(@, LAMBDA u : u # dev.uuid)]

\* uuid.New(): a UUID no device has and no pass remembers
NewUUID ==
    LET used == UNION {{uuids[p][n] : n \in DOMAIN uuids[p]} : p \in ParentIds}
                \cup UNION {{pass[i].devs[n].uuid : n \in DOMAIN pass[i].devs}
                              : i \in Passes}
    IN  CHOOSE u \in 1 .. Cardinality(used) + 1 : u \notin used

\* the UUIDs after the creation of a device on the parent, if it succeeded
Created(r, parent) ==
    IF IsNil(r.err) THEN [uuids EXCEPT ![parent] = Append(@, NewUUID)] ELSE uuids

Wrote(i) ==
    IF Len(writers) >= 3 \/ (writers # <<>> /\ writers[Len(writers)] = i) THEN writers
    ELSE Append(writers, i)

At(i, pc) == i \in DOMAIN pass /\ pass[i].pc = pc

InitPasses ==
    /\ isVFIOMode = FALSE
    /\ vgpus \in StartKernels
    /\ last = NoCall
    /\ calls = 0
    /\ engine \in Engines
    /\ mutex = 0
    /\ availableVGPUTypesMap = <<>>
    /\ unconfiguredParentsMap = {}
    /\ \E w1 \in Wants(engine), w2 \in Wants(engine) :
           pass = [i \in Passes |-> Locals(IF i = 1 THEN w1 ELSE w2)]
    /\ uuids = StartUUIDs(vgpus)
    /\ writers = <<>>
    /\ NoDaemon
    /\ NoInput

\* what a step of a pass leaves alone
PassFrame == UNCHANGED <<isVFIOMode, last, calls, engine, syncVars, pureVars>>

(* ---- reconcileVGPUDevices ---------------------------------------------- *)

\* m.mutex.Lock()
ReconcileLock(i) ==
    /\ engine = "reconcileVGPUDevices" /\ At(i, "start")
    /\ mutex = 0
    /\ mutex' = i
    /\ pass' = [pass EXCEPT ![i].pc = "list"]
    /\ UNCHANGED <<vgpus, uuids, availableVGPUTypesMap, unconfiguredParentsMap, writers>>
    /\ PassFrame

\* m.parentDevices = GetAllParentDevices(); deleteAllVGPUDevices: GetAllDevices
ReconcileList(i) ==
    /\ engine = "reconcileVGPUDevices" /\ At(i, "list")
    /\ pass' = [pass EXCEPT
                  ![i].pc = "delete",
                  ![i].parents = GetAllParentDevices(NewContext(vgpus), NoFault).val,
                  ![i].devs = DevicesWithUUID(vgpus, uuids, 1)]
    /\ UNCHANGED <<vgpus, uuids, mutex, availableVGPUTypesMap, unconfiguredParentsMap,
                   writers>>
    /\ PassFrame

\* deleteAllVGPUDevices: device.Delete() of the next device enumerated
ReconcileDelete(i) ==
    /\ engine = "reconcileVGPUDevices" /\ At(i, "delete")
    /\ pass[i].devs # <<>>
    /\ LET dev == Head(pass[i].devs)
       IN  IF Exists(uuids, dev)
           THEN /\ vgpus' = Delete(NewContext(vgpus), NoFault, dev).c.k
                /\ uuids' = Removed(uuids, dev)
                /\ pass' = [pass EXCEPT ![i].devs = Tail(@)]
                /\ writers' = Wrote(i)
           ELSE /\ UNCHANGED <<vgpus, uuids>>
                /\ pass' = [pass EXCEPT ![i].pc = "unlock",
                                        ![i].err = Err("Delete", dev.type, 0)]
                /\ writers' = writers
    /\ UNCHANGED <<mutex, availableVGPUTypesMap, unconfiguredParentsMap>>
    /\ PassFrame

\* discoverConfigurableVGPUTypes: the loops over the parents and the desired
\* types, adding to the two maps of the manager
RECURSIVE Discover(_, _, _, _, _, _)
Discover(k, parents, n, desiredTypes, j, maps) ==
    IF n > Len(parents) THEN maps
    ELSE IF j > Len(desiredTypes) THEN Discover(k, parents, n + 1, desiredTypes, 1, maps)
    ELSE LET parent == parents[n]
             desiredType == desiredTypes[j]
             available == IsVGPUTypeAvailable(FALSE, NewContext(k), NoFault,
                                              parent, desiredType).val
             parentsArray == IF desiredType \in DOMAIN maps.available
                             THEN maps.available[desiredType] ELSE <<>>
         IN  IF available
             THEN Discover(k, parents, n, desiredTypes, j + 1,
                           [available |-> Put(maps.available, desiredType,
                                              Append(parentsArray, parent)),
                            unconfigured |-> maps.unconfigured \cup {parent}])
             ELSE Discover(k, parents, n, desiredTypes, j + 1, maps)

\* the loop of createDesiredVGPUDevices ends
Configured(available, unconfigured) == unconfigured = {} \/ DOMAIN available = {}

\* discoverConfigurableVGPUTypes, then newVGPUTypesRing over the map in any order
ReconcileDiscover(i) ==
    /\ engine = "reconcileVGPUDevices" /\ At(i, "delete")
    /\ pass[i].devs = <<>>
    /\ LET maps == Discover(vgpus, pass[i].parents, 1, pass[i].want.desiredTypes, 1,
                            [available |-> availableVGPUTypesMap,
                             unconfigured |-> unconfiguredParentsMap])
       IN  /\ availableVGPUTypesMap' = maps.available
           /\ unconfiguredParentsMap' = maps.unconfigured
           /\ IF Configured(maps.available, maps.unconfigured)
              THEN pass' = [pass EXCEPT ![i].pc = "unlock"]
              ELSE \E r \in Perms(DOMAIN maps.available) :
                       pass' = [pass EXCEPT ![i].pc = "pick", ![i].ring = r]
    /\ UNCHANGED <<vgpus, uuids, mutex, writers>>
    /\ PassFrame

\* getNextAvailableParentDevice: the index of the first parent of the list
\* still unconfigured; past the end of the list when there is none
RECURSIVE getNextAvailableParentDevice(_, _, _)
getNextAvailableParentDevice(parents, n, unconfigured) ==
    IF n > Len(parents) THEN n
    ELSE IF parents[n] \in unconfigured THEN n
    ELSE getNextAvailableParentDevice(parents, n + 1, unconfigured)

\* createDesiredVGPUDevices after the parent picked for vGPUType: the two
\* maps are updated, the ring advances and the loop ends or goes on
AfterParent(i, vGPUType, parents, unconfigured) ==
    LET available == IF Len(parents) > 0
                     THEN Put(availableVGPUTypesMap, vGPUType, parents)
                     ELSE [t \in DOMAIN availableVGPUTypesMap \ {vGPUType}
                             |-> availableVGPUTypesMap[t]]
    IN  /\ availableVGPUTypesMap' = available
        /\ unconfiguredParentsMap' = unconfigured
        /\ pass' = [pass EXCEPT
                      ![i].pc = IF Configured(available, unconfigured)
                                THEN "unlock" ELSE "pick",
                      ![i].ring = Tail(@) \o <<Head(@)>>,
                      ![i].left = 0]

\* createDesiredVGPUDevices: one turn of the loop up to the first creation
ReconcilePick(i) ==
    /\ engine = "reconcileVGPUDevices" /\ At(i, "pick")
    /\ LET vGPUType == Head(pass[i].ring)
       IN  IF vGPUType \notin DOMAIN availableVGPUTypesMap
           THEN /\ pass' = [pass EXCEPT
                              ![i].pc = IF Configured(availableVGPUTypesMap,
                                                      unconfiguredParentsMap)
                                        THEN "unlock" ELSE "pick",
                              ![i].ring = Tail(@) \o <<Head(@)>>]
                /\ UNCHANGED <<availableVGPUTypesMap, unconfiguredParentsMap>>
           ELSE LET parents == availableVGPUTypesMap[vGPUType]
                    n == getNextAvailableParentDevice(parents, 1, unconfiguredParentsMap)
                IN  IF n > Len(parents)
                    \* parents[i] with i = len(parents): the goroutine panics
                    \* and the process ends
                    THEN /\ pass' = [p \in Passes |-> [pass[p] EXCEPT !.pc = "crashed"]]
                         /\ UNCHANGED <<availableVGPUTypesMap, unconfiguredParentsMap>>
                    ELSE LET availableInstances ==
                                 GetAvailableVGPUInstances(FALSE, NewContext(vgpus), NoFault,
                                                           parents[n], vGPUType).val
                             rest == SubSeq(parents, n + 1, Len(parents))
                         IN  IF availableInstances > 0
                             THEN /\ pass' = [pass EXCEPT ![i].pc = "create",
                                                          ![i].key = vGPUType,
                                                          ![i].parent = parents[n],
                                                          ![i].parents = rest,
                                                          ![i].left = availableInstances]
                                  /\ UNCHANGED <<availableVGPUTypesMap,
                                                 unconfiguredParentsMap>>
                             ELSE AfterParent(i, vGPUType, rest, unconfiguredParentsMap)
    /\ UNCHANGED <<vgpus, uuids, mutex, writers>>
    /\ PassFrame

\* createDesiredVGPUDevices: parentDevice.CreateMDEVDevice(vGPUType, uuid)
ReconcileCreate(i) ==
    /\ engine = "reconcileVGPUDevices" /\ At(i, "create")
    /\ LET r == CreateVGPUDevice(FALSE, NewContext(vgpus), NoFault,
                                 pass[i].parent, pass[i].key)
       IN  /\ vgpus' = r.c.k
           /\ uuids' = Created(r, pass[i].parent)
           /\ IF ~IsNil(r.err)
              THEN /\ pass' = [pass EXCEPT ![i].pc = "unlock", ![i].err = r.err]
                   /\ UNCHANGED <<availableVGPUTypesMap, unconfiguredParentsMap>>
              ELSE IF pass[i].left > 1
              THEN /\ pass' = [pass EXCEPT ![i].left = @ - 1]
                   /\ UNCHANGED <<availableVGPUTypesMap, unconfiguredParentsMap>>
              ELSE AfterParent(i, pass[i].key, pass[i].parents,
                               unconfiguredParentsMap \ {pass[i].parent})
    /\ writers' = IF vgpus' # vgpus THEN Wrote(i) ELSE writers
    /\ UNCHANGED mutex
    /\ PassFrame

\* defer m.mutex.Unlock()
ReconcileUnlock(i) ==
    /\ engine = "reconcileVGPUDevices" /\ At(i, "unlock")
    /\ mutex' = 0
    /\ pass' = [pass EXCEPT ![i].pc = "done"]
    /\ UNCHANGED <<vgpus, uuids, availableVGPUTypesMap, unconfiguredParentsMap, writers>>
    /\ PassFrame

(* ---- SetVGPUConfig ----------------------------------------------------- *)

\* SetVGPUConfig up to ClearVGPUConfig: the parents of the GPU, Sanitizing
SetSanitize(i) ==
    /\ engine = "SetVGPUConfig" /\ At(i, "start")
    /\ LET gpu == pass[i].want.gpu
           allParents == GetAllParentDevices(NewContext(vgpus), NoFault)
           parents == ParentsOf(allParents.val, gpu)
       IN  IF Len(parents) = 0
           THEN pass' = [pass EXCEPT ![i].pc = "done",
                                     ![i].err = Err("NoParents", NoType, gpu)]
           ELSE \E o1 \in Perms(DOMAIN pass[i].want.config) :
                    LET s == Sanitize(FALSE, NewContext(vgpus), NoFault, parents[1],
                                      pass[i].want.config, o1, 1, gpu)
                    IN  IF ~IsNil(s.err)
                        THEN pass' = [pass EXCEPT ![i].pc = "done", ![i].err = s.err]
                        ELSE pass' = [pass EXCEPT ![i].pc = "list", ![i].san = s.san]
    /\ UNCHANGED <<vgpus, uuids, mutex, availableVGPUTypesMap, unconfiguredParentsMap,
                   writers>>
    /\ PassFrame

\* ClearVGPUConfig: GetAllDevices; the devices of the GPU are those it deletes
SetList(i) ==
    /\ engine = "SetVGPUConfig" /\ At(i, "list")
    /\ LET vgpuDevs == DevicesWithUUID(vgpus, uuids, 1)
       IN  pass' = [pass EXCEPT
                      ![i].pc = "delete",
                      ![i].devs = SelectSeq(vgpuDevs,
                                      LAMBDA d : GetPhysicalFunction(d.parent)
                                                   = pass[i].want.gpu)]
    /\ UNCHANGED <<vgpus, uuids, mutex, availableVGPUTypesMap, unconfiguredParentsMap,
                   writers>>
    /\ PassFrame

\* ClearVGPUConfig: vgpuDev.Delete() of the next device of the GPU
SetDelete(i) ==
    /\ engine = "SetVGPUConfig" /\ At(i, "delete")
    /\ pass[i].devs # <<>>
    /\ LET dev == Head(pass[i].devs)
       IN  IF Exists(uuids, dev)
           THEN /\ vgpus' = Delete(NewContext(vgpus), NoFault, dev).c.k
                /\ uuids' = Removed(uuids, dev)
                /\ pass' = [pass EXCEPT ![i].devs = Tail(@)]
                /\ writers' = Wrote(i)
           ELSE /\ UNCHANGED <<vgpus, uuids>>
                /\ pass' = [pass EXCEPT ![i].pc = "done",
                                        ![i].err = Err("ClearVGPUConfig", dev.type, 0)]
                /\ writers' = writers
    /\ UNCHANGED <<mutex, availableVGPUTypesMap, unconfiguredParentsMap>>
    /\ PassFrame

\* the locals at the head of the loop over the sanitized config, for the
\* entries still to create in the order the map yields them
NextKey(l, order) ==
    IF order = <<>> THEN [l EXCEPT !.pc = "done", !.ring = <<>>]
    ELSE [l EXCEPT !.pc = "parent", !.ring = order, !.key = Head(order),
                   !.remaining = l.san[Head(order)],
                   !.parents = ParentsOf([p \in ParentIds |-> p], l.want.gpu)]

\* Creating: for key, val := range sanitizedConfig, in any order
SetRange(i) ==
    /\ engine = "SetVGPUConfig" /\ At(i, "delete")
    /\ pass[i].devs = <<>>
    /\ \E o2 \in Perms(DOMAIN pass[i].san) :
           pass' = [pass EXCEPT ![i] = NextKey(@, o2)]
    /\ UNCHANGED <<vgpus, uuids, mutex, availableVGPUTypesMap, unconfiguredParentsMap,
                   writers>>
    /\ PassFrame

\* Creating: one turn of the loop over the parents, up to the first creation
SetParent(i) ==
    /\ engine = "SetVGPUConfig" /\ At(i, "parent")
    /\ LET l == pass[i]
           key == l.key
       IN  IF l.remaining = 0 \/ l.parents = <<>>
           THEN IF l.remaining > 0
                THEN pass' = [pass EXCEPT
                                ![i].pc = "done",
                                ![i].err = Err("ExceededCapacity", key, l.san[key])]
                ELSE pass' = [pass EXCEPT ![i] = NextKey(@, Tail(l.ring))]
           ELSE LET parent == Head(l.parents)
                    supported == IsVGPUTypeAvailable(FALSE, NewContext(vgpus), NoFault,
                                                     parent, key).val
                    available == GetAvailableVGPUInstances(FALSE, NewContext(vgpus),
                                                           NoFault, parent, key).val
                IN  IF ~supported
                    THEN pass' = [pass EXCEPT
                                    ![i].pc = "done",
                                    ![i].err = Err("NotSupported", key, l.want.gpu)]
                    ELSE IF available <= 0
                    THEN pass' = [pass EXCEPT ![i].parents = Tail(@)]
                    ELSE pass' = [pass EXCEPT
                                    ![i].pc = "create",
                                    ![i].parent = parent,
                                    ![i].parents = Tail(@),
                                    ![i].left = min(l.remaining, available)]
    /\ UNCHANGED <<vgpus, uuids, mutex, availableVGPUTypesMap, unconfiguredParentsMap,
                   writers>>
    /\ PassFrame

\* Creating: parent.CreateVGPUDevice(key, uuid)
SetCreate(i) ==
    /\ engine = "SetVGPUConfig" /\ At(i, "create")
    /\ LET r == CreateVGPUDevice(FALSE, NewContext(vgpus), NoFault,
                                 pass[i].parent, pass[i].key)
       IN  /\ vgpus' = r.c.k
           /\ uuids' = Created(r, pass[i].parent)
           /\ IF ~IsNil(r.err)
              THEN pass' = [pass EXCEPT ![i].pc = "done", ![i].err = r.err]
              ELSE pass' = [pass EXCEPT
                              ![i].pc = IF pass[i].left > 1 THEN "create" ELSE "parent",
                              ![i].left = @ - 1,
                              ![i].remaining = @ - 1]
    /\ writers' = IF vgpus' # vgpus THEN Wrote(i) ELSE writers
    /\ UNCHANGED <<mutex, availableVGPUTypesMap, unconfiguredParentsMap>>
    /\ PassFrame

NextPasses ==
    \E i \in Passes :
        \/ ReconcileLock(i)
        \/ ReconcileList(i)
        \/ ReconcileDelete(i)
        \/ ReconcileDiscover(i)
        \/ ReconcilePick(i)
        \/ ReconcileCreate(i)
        \/ ReconcileUnlock(i)
        \/ SetSanitize(i)
        \/ SetList(i)
        \/ SetDelete(i)
        \/ SetRange(i)
        \/ SetParent(i)
        \/ SetCreate(i)

SpecPasses == InitPasses /\ [][NextPasses]_vars

\* writes of one pass lie between writes of the other (writers records a
\* pass once for each run of consecutive writes it made)
Interleaved ==
    \E a, b, c \in DOMAIN writers :
        a < b /\ b < c /\ writers[a] = writers[c] /\ writers[a] # writers[b]

\* C11: two reconciliation passes invoked concurrently never interleave:
\* all deletes and creates of one pass happen entirely before or entirely
\* after those of the other pass
C11_PassesNeverInterleave == ~Interleaved

\* C11 for reconcileVGPUDevices alone, which holds the mutex of the manager
C11_ReconcileVGPUDevicesOnly == engine = "reconcileVGPUDevices" => ~Interleaved

\* both passes of reconcileVGPUDevices wrote, one after the other
C11_BothWroteUnderMutex ==
    /\ engine = "reconcileVGPUDevices"
    /\ Len(writers) = 2
    /\ \A i \in Passes : pass[i].pc = "done"

-----------------------------------------------------------------------------
(* The daemon nvidia-k8s-vgpu-dm: the goroutine running start(), the       *)
(* informer goroutine that hands the events of the node to AddFunc and     *)
(* UpdateFunc, and the SyncableVGPUConfig between them.  The sections      *)
(* Set and Get run under the mutex of the SyncableVGPUConfig are steps; a  *)
(* Get that waits gives the mutex up in cond.Wait and takes it again once  *)
(* a Broadcast has woken it.                                               *)

\* the label changes made to the node in one run
MaxChanges == 3

\* values of the label nvidia.com/vgpu.config: unset, or the name of a config
LabelValues == {"", "t4", "dc"}

defaultVGPUConfigFlag == "default"

NoHistory == [changes |-> <<>>, sets |-> <<>>, gets |-> <<>>, passed |-> <<>>]

\* NewSyncableVGPUConfig
NewSyncableVGPUConfig == [current |-> "", lastRead |-> ""]

\* Set: m.current = value
Set(m, value) == [m EXCEPT !.current = value]

\* Set: if m.current != "" { m.cond.Broadcast() }
Broadcasts(m) == m.current # ""

\* Get waiting whether or not a value was set since the last read
MutWaits(m) == TRUE

\* Get: if m.lastRead == m.current { m.cond.Wait() }
Waits(m) == m.lastRead = m.current

\* Get returning lastRead without reading current
MutGet(m) == m

\* Get: m.lastRead = m.current; return m.lastRead
Get(m) == [m EXCEPT !.lastRead = m.current]

InitSync ==
    /\ NoCalls
    /\ NoPasses
    /\ NoInput
    /\ label \in LabelValues
    /\ listed = FALSE
    /\ queue = <<>>
    /\ vGPUConfig = NewSyncableVGPUConfig
    /\ mainPc = "start"
    /\ selectedConfig = ""
    /\ hist = NoHistory

SyncFrame == UNCHANGED <<engineVars, passVars, pureVars>>

\* a node event as the informer queues it: the value of the label in the old
\* and the new object, and the label change the new object carries
Event(add, old, new, id) == [add |-> add, old |-> old, new |-> new, id |-> id]

\* kubectl label node: the label is set to another value or removed
LabelChange ==
    /\ Len(hist.changes) < MaxChanges
    /\ \E v \in LabelValues \ {label} :
        /\ label' = v
        /\ hist' = [hist EXCEPT !.changes = Append(@, v)]
        /\ queue' = IF listed
                    THEN Append(queue, Event(FALSE, label, v, Len(hist.changes) + 1))
                    ELSE queue
    /\ UNCHANGED <<listed, vGPUConfig, mainPc, selectedConfig>>
    /\ SyncFrame

\* controller.Run: the informer lists the node and starts watching it
InformerList ==
    /\ ~listed
    /\ listed' = TRUE
    /\ queue' = Append(queue, Event(TRUE, "", label, Len(hist.changes)))
    /\ UNCHANGED <<label, vGPUConfig, mainPc, selectedConfig, hist>>
    /\ SyncFrame

\* vGPUConfig.Set(value) called by a handler for the event e
CallSet(e, value) ==
    LET m == Set(vGPUConfig, value)
    IN  /\ vGPUConfig' = m
        /\ mainPc' = IF Broadcasts(m) /\ mainPc = "waiting" THEN "woken" ELSE mainPc
        /\ hist' = [hist EXCEPT !.sets = Append(@, [value |-> value, id |-> e.id,
                                                    busy |-> mainPc = "updating"])]

AddFunc ==
    /\ queue # <<>> /\ Head(queue).add
    /\ CallSet(Head(queue), Head(queue).new)
    /\ queue' = Tail(queue)
    /\ UNCHANGED <<label, listed, selectedConfig>>
    /\ SyncFrame

UpdateFunc ==
    /\ queue # <<>> /\ ~Head(queue).add
    /\ LET oldLabel == Head(queue).old
           newLabel == Head(queue).new
       IN  IF oldLabel # newLabel
           THEN CallSet(Head(queue), newLabel)
           ELSE UNCHANGED <<vGPUConfig, mainPc, hist>>
    /\ queue' = Tail(queue)
    /\ UNCHANGED <<label, listed, selectedConfig>>
    /\ SyncFrame

\* the label change whose Set wrote current (0: the label the node had at
\* the start, -1: no Set yet)
LastSet == IF hist.sets = <<>> THEN -1 ELSE hist.sets[Len(hist.sets)].id

\* Get returns: lastRead is written, start() goes on to updateConfig
Returns ==
    LET m == Get(vGPUConfig)
    IN  /\ vGPUConfig' = m
        /\ selectedConfig' = m.lastRead
        /\ mainPc' = "updating"
        /\ hist' = [hist EXCEPT
                      !.gets = Append(@, [value |-> m.lastRead,
                                          prev |-> vGPUConfig.lastRead,
                                          nsets |-> Len(hist.sets)]),
                      !.passed = Append(@, [value |-> m.lastRead, id |-> LastSet])]

\* start(): getNodeLabelValue, then the default config or the first Get
Start ==
    /\ mainPc = "start"
    /\ IF label = ""
       THEN /\ selectedConfig' = defaultVGPUConfigFlag
            /\ mainPc' = "updating"
            /\ hist' = [hist EXCEPT !.passed = Append(@, [value |-> defaultVGPUConfigFlag,
                                                          id |-> -1])]
       ELSE /\ selectedConfig' = label
            /\ mainPc' = "get"
            /\ hist' = hist
    /\ UNCHANGED <<label, listed, queue, vGPUConfig>>
    /\ SyncFrame

\* vGPUConfig.Get() up to cond.Wait()
CallGet ==
    /\ mainPc = "get"
    /\ IF Waits(vGPUConfig)
       THEN /\ mainPc' = "waiting"
            /\ UNCHANGED <<vGPUConfig, selectedConfig, hist>>
       ELSE Returns
    /\ UNCHANGED <<label, listed, queue>>
    /\ SyncFrame

\* cond.Wait() returns after a Broadcast, the mutex held again
Wake ==
    /\ mainPc = "woken"
    /\ Returns
    /\ UNCHANGED <<label, listed, queue>>
    /\ SyncFrame

\* updateConfig(selectedConfig) returns and the state label of the node is
\* set, which the informer sees as an update that leaves the config label
updateConfig ==
    /\ mainPc = "updating"
    /\ mainPc' = "get"
    /\ queue' = IF listed THEN Append(queue, Event(FALSE, label, label, Len(hist.changes)))
                ELSE queue
    /\ UNCHANGED <<label, listed, vGPUConfig, selectedConfig, hist>>
    /\ SyncFrame

MainStep == Start \/ CallGet \/ Wake \/ updateConfig

InformerStep == InformerList \/ AddFunc \/ UpdateFunc

NextSync == LabelChange \/ MainStep \/ InformerStep

SpecSync == InitSync /\ [][NextSync]_vars

\* the Go scheduler runs a goroutine that can run; updateConfig returns
FairSync == SpecSync /\ WF_vars(MainStep) /\ WF_vars(InformerStep)

\* C12: if several Set calls occur between two consecutive returns of Get,
\* the later Get returns the value of the last Set; no Get returns a value
\* that a later Set had overwritten by the time it returned
C12_GetReturnsLastSet ==
    \A n \in DOMAIN hist.gets :
        LET g == hist.gets[n]
        IN  /\ g.nsets > 0
            /\ g.value = hist.sets[g.nsets].value

\* a Get returned after two further Set calls, the first of a value other
\* than the one it returned
C12_Witness ==
    \E n \in DOMAIN hist.gets :
        /\ n > 1
        /\ hist.gets[n].nsets >= hist.gets[n - 1].nsets + 2
        /\ hist.sets[hist.gets[n].nsets - 1].value # hist.gets[n].value

\* C13: a Get returns only when the stored value differs from the value the
\* previous Get returned
C13_GetReturnsOnlyADifferentValue ==
    \A n \in DOMAIN hist.gets : hist.gets[n].value # hist.gets[n].prev

\* the label change i has reached the daemon (its handler has called Set),
\* to a non-empty value that differs from the last value read
Changed(i) ==
    /\ LastSet = i
    /\ vGPUConfig.current # ""
    /\ vGPUConfig.current # vGPUConfig.lastRead

\* the value of the label change i was passed to updateConfig
Passed(i) == \E n \in DOMAIN hist.passed : hist.passed[n].id = i

\* a later label change has replaced the value of the label change i before
\* the main loop read it
Replaced(i) == ~Passed(i) /\ LastSet > i

\* C14: under fair scheduling every change of the label to a non-empty value
\* that differs from the last value read is eventually passed to
\* updateConfig, unless a later label change replaces it before the main
\* loop reads it
C14_LabelChangeReachesUpdateConfig ==
    \A i \in 1 .. MaxChanges : Changed(i) ~> (Passed(i) \/ Replaced(i))

\* a label change that arrived while updateConfig was running has been
\* passed to updateConfig
C14_Witness ==
    \E i \in 1 .. MaxChanges :
        /\ Passed(i)
        /\ i <= Len(hist.changes) /\ hist.changes[i] # ""
        /\ \E n \in DOMAIN hist.sets : hist.sets[n].id = i /\ hist.sets[n].busy

-----------------------------------------------------------------------------
(* The package types: ParseVGPUType, VGPUType.String, Series.IsValid and   *)
(* VGPUConfig.AssertValid.  A regular expression is modelled by the set of *)
(* ways the whole string splits into its capture groups.                   *)

UpperCase ==
    {"A", "B", "C", "D", "E", "F", "G", "H", "I", "J", "K", "L", "M",
     "N", "O", "P", "Q", "R", "S", "T", "U", "V", "W", "X", "Y", "Z"}

LowerCase ==
    {"a", "b", "c", "d", "e", "f", "g", "h", "i", "j", "k", "l", "m",
     "n", "o", "p", "q", "r", "s", "t", "u", "v", "w", "x", "y", "z"}

DigitChars == <<"0", "1", "2", "3", "4", "5", "6", "7", "8", "9">>

Digits == {DigitChars[n] : n \in DOMAIN DigitChars}

\* every character of the string is in the class
AllIn(str, class) == \A n \in DOMAIN str : str[n] \in class

\* [A-Z0-9]+
MatchesGPUHead(str) == str # <<>> /\ AllIn(str, UpperCase \cup Digits)

\* a dash segment of the GPU group accepting digits too
MutMatchesGPUSegment(str) == str # <<>> /\ AllIn(str, UpperCase \cup LowerCase \cup Digits)

\* [a-zA-Z]+ of (-([a-zA-Z]+))*
MatchesGPUSegment(str) == str # <<>> /\ AllIn(str, UpperCase \cup LowerCase)

\* strings.Split(str, "-") of the part of str from position n on
RECURSIVE SplitDash(_, _, _)
SplitDash(str, n, seg) ==
    IF n > Len(str) THEN <<seg>>
    ELSE IF str[n] = "-" THEN <<seg>> \o SplitDash(str, n + 1, <<>>)
    ELSE SplitDash(str, n + 1, Append(seg, str[n]))

\* [A-Z0-9]+(-([a-zA-Z]+))*
MatchesTimeSlicedGPU(str) ==
    LET segs == SplitDash(str, 1, <<>>)
    IN  /\ MatchesGPUHead(segs[1])
        /\ \A n \in 2 .. Len(segs) : MatchesGPUSegment(segs[n])

\* 0|[1-9][0-9]*
MatchesGB(str) ==
    \/ str = <<"0">>
    \/ str # <<>> /\ str[1] \in Digits \ {"0"} /\ AllIn(str, Digits)

\* A|B|C|Q of the two expressions
SeriesLetters == {"A", "B", "C", "Q"}

\* the attributes with the lower-case me accepted too
MutAttributes ==
    {AttributeMediaExtensions, AttributeNoMediaExtensions,
     AttributeMediaExtensionsAll, AttributeGraphics, <<"m", "e">>}

\* (ME|NOME|MEALL|GFX)
Attributes ==
    {AttributeMediaExtensions, AttributeNoMediaExtensions,
     AttributeMediaExtensionsAll, AttributeGraphics}

Groups(gpu, g, gb, series, attr) ==
    [GPU |-> gpu, G |-> g, GB |-> gb, S |-> series, ATTR |-> attr]

\* timeSlicedRegex: the capture groups of every way the string matches it
timeSlicedRegex(str) ==
    {Groups(SubSeq(str, 1, d - 1), <<>>, SubSeq(str, d + 1, Len(str) - 1),
            <<str[Len(str)]>>, <<>>) :
        d \in {n \in DOMAIN str :
                 /\ str[n] = "-"
                 /\ n < Len(str)
                 /\ MatchesTimeSlicedGPU(SubSeq(str, 1, n - 1))
                 /\ MatchesGB(SubSeq(str, n + 1, Len(str) - 1))
                 /\ str[Len(str)] \in SeriesLetters}}

\* migBackedRegex: the capture groups of every way the string matches it; d
\* is the first dash and e the position of the series letter
migBackedRegex(str) ==
    {Groups(SubSeq(str, 1, m[1] - 1), <<str[m[1] + 1]>>,
            SubSeq(str, m[1] + 3, m[2] - 1), <<str[m[2]]>>,
            SubSeq(str, m[2] + 1, Len(str))) :
        m \in {x \in (DOMAIN str) \X (DOMAIN str) :
                 /\ str[x[1]] = "-"
                 /\ MatchesGPUHead(SubSeq(str, 1, x[1] - 1))
                 /\ x[1] + 2 <= Len(str)
                 /\ str[x[1] + 1] \in Digits \ {"0"}
                 /\ str[x[1] + 2] = "-"
                 /\ x[2] > x[1] + 2
                 /\ MatchesGB(SubSeq(str, x[1] + 3, x[2] - 1))
                 /\ str[x[2]] \in SeriesLetters
                 /\ SubSeq(str, x[2] + 1, Len(str)) \in Attributes \cup {<<>>}}}

\* parseRegex: the named groups of the match FindStringSubmatch returns, an
\* empty map when there is none.  G and ATTR are keys of the map whenever
\* the expression has the group, also when ATTR matched nothing.
NoGroups == [n \in {} |-> <<>>]

parseRegex(matches, mig) ==
    IF matches = {} THEN NoGroups
    ELSE LET m == CHOOSE x \in matches : TRUE
         IN  [n \in IF mig THEN {"GPU", "G", "GB", "S", "ATTR"} ELSE {"GPU", "GB", "S"}
                |-> m[n]]

\* the largest int, in decimal
MaxIntDigits ==
    <<"9", "2", "2", "3", "3", "7", "2", "0", "3", "6",
      "8", "5", "4", "7", "7", "5", "8", "0", "7">>

\* the decimal numeral a is greater than the numeral b of the same length
RECURSIVE Greater(_, _, _)
Greater(a, b, n) ==
    IF n > Len(a) THEN FALSE
    ELSE IF a[n] # b[n]
         THEN (CHOOSE x \in DOMAIN DigitChars : DigitChars[x] = a[n])
              > (CHOOSE x \in DOMAIN DigitChars : DigitChars[x] = b[n])
         ELSE Greater(a, b, n + 1)

\* the value of a decimal numeral
RECURSIVE ValueOf(_, _, _)
ValueOf(str, n, acc) ==
    IF n > Len(str) THEN acc
    ELSE ValueOf(str, n + 1,
                 10 * acc + (CHOOSE x \in DOMAIN DigitChars : DigitChars[x] = str[n]) - 1)

\* a numeral without its leading zeros
RECURSIVE TrimZeros(_)
TrimZeros(str) ==
    IF Len(str) > 1 /\ str[1] = "0" THEN TrimZeros(Tail(str)) ELSE str

\* strconv.Atoi of a string of digits: [err, val]
Atoi(str) ==
    LET num == TrimZeros(str)
    IN  IF \/ str = <<>>
           \/ Len(num) > Len(MaxIntDigits)
           \/ Len(num) = Len(MaxIntDigits) /\ Greater(num, MaxIntDigits, 1)
        THEN [err |-> TRUE, val |-> 0]
        ELSE [err |-> FALSE, val |-> ValueOf(num, 1, 0)]

\* %d of a number that is not negative
RECURSIVE Itoa(_)
Itoa(n) ==
    IF n < 10 THEN <<DigitChars[n + 1]>>
    ELSE Itoa(n \div 10) \o <<DigitChars[(n % 10) + 1]>>

\* Series.IsValid
IsValid(series) == series \in {"A", "B", "C", "Q"}

NoVGPUType == [GPU |-> <<>>, G |-> 0, GB |-> 0, S |-> "", Attr |-> <<>>]

Parsed(v) == [type |-> v, nil |-> FALSE, err |-> "nil"]

ParseError(e) == [type |-> NoVGPUType, nil |-> TRUE, err |-> e]

\* ParseVGPUType: [type, nil, err], nil telling that no type is returned
ParseVGPUType(str) ==
    IF Len(str) = 0 THEN ParseError("empty vGPU type string")
    ELSE
    LET timeSliced == parseRegex(timeSlicedRegex(str), FALSE)
        captureGroups == IF DOMAIN timeSliced = {}
                         THEN parseRegex(migBackedRegex(str), TRUE)
                         ELSE timeSliced
    IN  IF DOMAIN captureGroups = {} THEN ParseError("malformed vGPU type string")
        ELSE
        LET gb == Atoi(captureGroups["GB"])
            series == captureGroups["S"][1]
        IN  IF gb.err THEN ParseError("malformed number for framebuffer size")
            ELSE IF ~IsValid(series) THEN ParseError("invalid series")
            ELSE IF "G" \in DOMAIN captureGroups
            THEN LET g == Atoi(captureGroups["G"])
                 IN  IF g.err THEN ParseError("malformed number for GPU instances")
                     ELSE Parsed([GPU |-> captureGroups["GPU"], G |-> g.val,
                                  GB |-> gb.val, S |-> series,
                                  Attr |-> IF "ATTR" \in DOMAIN captureGroups
                                           THEN <<captureGroups["ATTR"]>> ELSE <<>>])
            ELSE Parsed([GPU |-> captureGroups["GPU"], G |-> 0, GB |-> gb.val,
                         S |-> series, Attr |-> <<>>])

\* strings.Join(a, "")
RECURSIVE Join(_)
Join(a) == IF a = <<>> THEN <<>> ELSE Head(a) \o Join(Tail(a))

\* String that leaves the attributes out
MutString(v) ==
    IF v.G = 0 THEN v.GPU \o <<"-">> \o Itoa(v.GB) \o <<v.S>>
    ELSE v.GPU \o <<"-">> \o Itoa(v.G) \o <<"-">> \o Itoa(v.GB) \o <<v.S>>

\* VGPUType.String
String(v) ==
    IF v.G = 0 THEN v.GPU \o <<"-">> \o Itoa(v.GB) \o <<v.S>>
    ELSE LET suffix == IF Len(v.Attr) > 0 THEN Join(v.Attr) ELSE <<>>
         IN  v.GPU \o <<"-">> \o Itoa(v.G) \o <<"-">> \o Itoa(v.GB) \o <<v.S>> \o suffix

\* val <= 0 that lets a zero count through
MutBadCount(val) == val < 0

\* val <= 0 of AssertValid
BadCount(val) == val <= 0

\* the mixing test that is made for the MIG-backed types only
MutMixes(vgpuType, idx, migBacked) == vgpuType.G > 0 /\ idx > 0 /\ ~migBacked

\* the mixing test AssertValid makes of the idx-th entry of its iteration
Mixes(vgpuType, idx, migBacked) ==
    IF vgpuType.G > 0 THEN idx > 0 /\ ~migBacked ELSE idx > 0 /\ migBacked

\* the first loop of AssertValid from the j-th key of the iteration order
\* on, and the second loop after it
RECURSIVE AssertValidFrom(_, _, _, _)
AssertValidFrom(v, order, j, migBacked) ==
    IF j > Len(order)
    THEN IF \E key \in DOMAIN v : v[key] > 0 THEN "nil" ELSE "all counts are 0"
    ELSE LET key == order[j]
             r == ParseVGPUType(key)
         IN  IF r.err # "nil" THEN "invalid format"
             ELSE IF BadCount(v[key]) THEN "invalid count"
             ELSE IF Mixes(r.type, j - 1, migBacked)
                  THEN "cannot mix time-sliced and MIG-backed vGPU devices"
             ELSE AssertValidFrom(v, order, j + 1, migBacked \/ r.type.G > 0)

\* VGPUConfig.AssertValid when the map is iterated in the given order
AssertValid(v, order) ==
    IF Cardinality(DOMAIN v) = 0 THEN "nil" ELSE AssertValidFrom(v, order, 1, FALSE)

-----------------------------------------------------------------------------
(* The conversion of a vGPU configuration into a MIG configuration.        *)

\* the profile name the loop of ToMigConfigSpecSlice builds for a MIG-backed
\* type: Sprintf("%dg.%dgb"), and ".me" for the first ME among the attributes
migProfile(vgpu) ==
    Itoa(vgpu.G) \o <<"g", ".">> \o Itoa(vgpu.GB) \o <<"g", "b">>
      \o (IF \E n \in DOMAIN vgpu.Attr : vgpu.Attr[n] = AttributeMediaExtensions
          THEN <<".", "m", "e">> ELSE <<>>)

NoMigDevices == [err |-> "nil", MigDevices |-> <<>>, migEnabled |-> FALSE]

\* the inner loop of ToMigConfigSpecSlice from the j-th key of the iteration
\* order of VGPUDevices on
RECURSIVE MigDevicesFrom(_, _, _, _)
MigDevicesFrom(VGPUDevices, order, j, acc) ==
    IF j > Len(order) THEN acc
    ELSE LET vgpuType == order[j]
             r == ParseVGPUType(vgpuType)
         IN  IF r.err # "nil"
             THEN [acc EXCEPT !.err = "failed to parse vGPU type"]
             ELSE IF r.type.G > 0
             THEN MigDevicesFrom(VGPUDevices, order, j + 1,
                      [acc EXCEPT !.migEnabled = TRUE,
                                  !.MigDevices = Put(@, migProfile(r.type),
                                                     VGPUDevices[vgpuType])])
             ELSE MigDevicesFrom(VGPUDevices, order, j + 1, acc)

\* the outer loop of ToMigConfigSpecSlice from the i-th entry of the slice on
RECURSIVE MigConfigSpecsFrom(_, _, _, _)
MigConfigSpecsFrom(s, orders, i, migConfigSpecs) ==
    IF i > Len(s) THEN [nil |-> FALSE, err |-> "nil", specs |-> migConfigSpecs]
    ELSE LET vgpuSpec == s[i]
             r == MigDevicesFrom(vgpuSpec.VGPUDevices, orders[i], 1, NoMigDevices)
         IN  IF r.err # "nil" THEN [nil |-> TRUE, err |-> r.err, specs |-> <<>>]
             ELSE MigConfigSpecsFrom(s, orders, i + 1,
                      Append(migConfigSpecs,
                             [DeviceFilter |-> vgpuSpec.DeviceFilter,
                              Devices |-> vgpuSpec.Devices,
                              MigEnabled |-> r.migEnabled,
                              MigDevices |-> r.MigDevices]))

\* VGPUConfigSpecSlice.ToMigConfigSpecSlice when the map of the i-th entry is
\* iterated in the order orders[i]
ToMigConfigSpecSlice(s, orders) == MigConfigSpecsFrom(s, orders, 1, <<>>)

-----------------------------------------------------------------------------
(* The functions applied to bounded sets of names and configurations.      *)

MaxEntries == 3

\* names put together from well-formed and malformed parts (blanks before,
\* inside and after, lower-case letters, other series and attributes), the
\* names of the tests that the parts do not make, and numbers at the end of
\* the range of int
TypeNames ==
    {l \o g \o d \o m \o b \o c \o a \o e :
        l \in {<<>>, <<" ">>},
        g \in {<<"A", "1", "0", "0">>, <<"R", "T", "X", "-", "A", "d", "a">>,
              <<"a", "1", "6">>},
        d \in {<<"-">>, <<" ", "-">>},
        m \in {<<>>, <<"1", "-">>, <<"0", "-">>, <<"1", " ", "-">>},
        b \in {<<"0">>, <<"5">>, <<"4", "0">>, <<"0", "5">>},
        c \in {<<"Q">>, <<"A">>, <<"C">>, <<"E">>, <<"c">>, <<" ", "C">>},
        a \in {<<>>, <<"M", "E">>, <<"N", "O", "M", "E">>,
              <<"M", "E", "A", "L", "L">>, <<"G", "F", "X">>, <<"m", "e">>,
              <<"N", "O", "M", "E", "M", "E">>},
        e \in {<<>>, <<" ">>}}
    \cup
    {<<>>, <<"b", "o", "g", "u", "s">>, <<"A", "1", "0", "0">>,
     <<"A", "1", "6", "-", "8", "B">>,
     <<"A", "1", "0", "0", "-", "7", "-", "4", "0", "C", "M", "E", "A", "L", "L">>,
     <<"A", "1", "0", "0", "M", "E", "-", "5", "C">>,
     <<"A", "1", "0", "0", "N", "O", "M", "E", "-", "5", "C">>,
     <<"A", "1", "0", "0", "M", "E", "A", "L", "L", "-", "5", "C">>,
     <<"A", "1", "0", "0", "G", "F", "X", "-", "5", "C">>,
     <<"R", "T", "X", "6", "0", "0", "0", "-", "A", "d", "a", "-", "2", "Q", "G", "F", "X">>,
     <<"H", "1", "0", "0", "-", "1", "-", "2", "0", "C", "M", "E">>,
     <<"A", "1", "0", "0", "-", "1", "-", "5", "C", " ", "M", "e">>,
     <<"A", "1", "0", "0", "-", "1", "-", "5", "C", "a", "b">>,
     <<"A", "1", "0", "0", "-", "1", "0", "-", "5", "C">>,
     <<"A", "1", "0", "0", "-", "1", "-", "1", "-", "5", "C">>,
     <<"A", "1", "0", "0", "-", "L", "S", "-", "M", "E", "-", "5", "C">>,
     <<"A", "1", "0", "0", "-", "9", "2", "2", "3", "3", "7", "2", "0", "3", "6", "8", "5", "4", "7", "7", "5", "8", "0", "8", "Q">>,
     <<"A", "1", "0", "0", "-", "1", "-", "9", "9", "9", "9", "9", "9", "9", "9", "9", "9", "9", "9", "9", "9", "9", "9", "9", "9", "9", "9", "C">>,
     <<"A", "1", "0", "0", "-", "0", "0", "0", "0", "0", "0", "0", "0", "0", "0", "0", "0", "0", "0", "0", "0", "0", "0", "0", "0", "5", "C">>}

ConfigKeys ==
    {<<"A", "1", "0", "0", "-", "5", "C">>,
     <<"A", "1", "0", "0", "-", "8", "C">>,
     <<"A", "1", "0", "0", "-", "1", "-", "5", "C">>,
     <<"A", "1", "0", "0", "-", "2", "-", "1", "0", "C", "M", "E">>,
     <<"A", "1", "0", "0", "-", "5", "c">>}

ValidatedConfigs ==
    UNION {[keys -> -1 .. 2] :
             keys \in {S \in SUBSET ConfigKeys : Cardinality(S) <= MaxEntries}}

\* the configurations compared with each other: up to two types, counts from
\* zero on
ComparedConfigs ==
    UNION {[keys -> 0 .. 2] :
             keys \in SUBSET {<<"A", "1", "0", "0", "-", "5", "C">>,
                              <<"A", "1", "0", "0", "-", "8", "C">>}}

\* the types of the entries converted: MIG-backed with each attribute and
\* without, two series of one MIG profile, time-sliced, and a malformed name
SpecKeys ==
    {<<"A", "1", "0", "0", "-", "1", "-", "5", "C">>,
     <<"A", "1", "0", "0", "-", "1", "-", "5", "C", "M", "E">>,
     <<"A", "1", "0", "0", "-", "1", "-", "5", "C", "N", "O", "M", "E">>,
     <<"A", "1", "0", "0", "-", "1", "-", "5", "C", "M", "E", "A", "L", "L">>,
     <<"A", "1", "0", "0", "-", "1", "-", "5", "C", "G", "F", "X">>,
     <<"A", "1", "0", "0", "-", "1", "-", "5", "Q">>,
     <<"A", "1", "0", "0", "-", "2", "-", "1", "0", "C">>,
     <<"A", "1", "0", "0", "-", "4", "0", "C">>,
     <<"I", "n", "v", "a", "l", "i", "d", "T", "y", "p", "e">>}

MaxSpecKeys == 2

\* an entry of a VGPUConfigSpecSlice
VGPUConfigSpecs ==
    {[DeviceFilter |-> f, Devices |-> d, VGPUDevices |-> v] :
        f \in {<<>>, <<"MODEL">>},
        d \in {<<"all">>, <<"0", "1">>},
        v \in UNION {[keys -> {2, 4}] :
                       keys \in {S \in SUBSET SpecKeys : Cardinality(S) <= MaxSpecKeys}}}

\* the slices converted: every single entry, and the pairs of entries of at
\* most one type
VGPUConfigSpecSlices ==
    {<<e>> : e \in VGPUConfigSpecs}
    \cup {<<e1, e2>> :
            e1 \in {e \in VGPUConfigSpecs :
                      /\ e.DeviceFilter = <<>> /\ e.Devices = <<"all">>
                      /\ Cardinality(DOMAIN e.VGPUDevices) <= 1
                      /\ \A key \in DOMAIN e.VGPUDevices : e.VGPUDevices[key] = 4},
            e2 \in {e \in VGPUConfigSpecs :
                      /\ e.DeviceFilter = <<"MODEL">> /\ e.Devices = <<"0", "1">>
                      /\ Cardinality(DOMAIN e.VGPUDevices) <= 1
                      /\ \A key \in DOMAIN e.VGPUDevices : e.VGPUDevices[key] = 2}}

Args ==
    {[kind |-> "name", name |-> n] : n \in TypeNames}
    \cup {[kind |-> "slice", s |-> s] : s \in VGPUConfigSpecSlices}
    \cup {[kind |-> "config", config |-> v] : v \in ValidatedConfigs}
    \cup {[kind |-> "pair", a |-> a, b |-> b] :
             a \in ComparedConfigs, b \in ComparedConfigs}

InitTypes ==
    /\ NoCalls
    /\ NoPasses
    /\ NoDaemon
    /\ arg \in Args
    /\ ret = [op |-> "none"]

TypesFrame == UNCHANGED <<engineVars, passVars, syncVars, arg>>

CallParseVGPUType ==
    /\ arg.kind = "name"
    /\ ret.op = "none"
    /\ ret' = [op |-> "ParseVGPUType", r |-> ParseVGPUType(arg.name)]
    /\ TypesFrame

\* String of the type the parse returned
CallString ==
    /\ ret.op = "ParseVGPUType"
    /\ ~ret.r.nil
    /\ ret' = [op |-> "String", v |-> ret.r.type, out |-> String(ret.r.type)]
    /\ TypesFrame

CallStripVGPUConfigSuffix ==
    /\ arg.kind = "name"
    /\ ret.op = "none"
    /\ ret' = [op |-> "stripVGPUConfigSuffix", out |-> stripVGPUConfigSuffix(arg.name)]
    /\ TypesFrame

CallAssertValid ==
    /\ arg.kind = "config"
    /\ ret.op = "none"
    /\ \E order \in Perms(DOMAIN arg.config) :
         ret' = [op |-> "AssertValid", order |-> order,
                 err |-> AssertValid(arg.config, order)]
    /\ TypesFrame

\* a.Equals(b)
CallEquals ==
    /\ arg.kind = "pair"
    /\ ret.op = "none"
    /\ ret' = [op |-> "Equals", val |-> Equals(arg.a, arg.b)]
    /\ TypesFrame

\* s.ToMigConfigSpecSlice(), each map iterated in some order
CallToMigConfigSpecSlice ==
    /\ arg.kind = "slice"
    /\ ret.op = "none"
    /\ \E o1 \in Perms(DOMAIN arg.s[1].VGPUDevices),
          o2 \in IF Len(arg.s) > 1 THEN Perms(DOMAIN arg.s[2].VGPUDevices) ELSE {<<>>} :
         LET orders == IF Len(arg.s) > 1 THEN <<o1, o2>> ELSE <<o1>>
         IN  ret' = [op |-> "ToMigConfigSpecSlice", orders |-> orders,
                     r |-> ToMigConfigSpecSlice(arg.s, orders)]
    /\ TypesFrame

NextTypes ==
    \/ CallToMigConfigSpecSlice
    \/ CallParseVGPUType
    \/ CallString
    \/ CallStripVGPUConfigSuffix
    \/ CallAssertValid
    \/ CallEquals

SpecTypes == InitTypes /\ [][NextTypes]_vars

-----------------------------------------------------------------------------
(* The claims about AssertValid, ParseVGPUType, String and the suffixes.   *)

MixedBackingMode == "cannot mix time-sliced and MIG-backed vGPU devices"

AllParseAllPositive(v) ==
    \A key \in DOMAIN v : ~ParseVGPUType(key).nil /\ v[key] > 0

\* C15: for a VGPUConfig whose keys all parse and whose counts are all
\* positive, AssertValid fails with the mixed-backing error exactly when the
\* config has a MIG-backed type and a time-sliced type, and returns no error
\* otherwise, in whatever order the map is iterated.
C15_MixedBackingExactly ==
    (ret.op = "AssertValid" /\ AllParseAllPositive(arg.config))
    => /\ ret.err = MixedBackingMode
          <=> /\ \E key \in DOMAIN arg.config : migBackedRegex(key) # {}
              /\ \E key \in DOMAIN arg.config : timeSlicedRegex(key) # {}
       /\ ret.err \in {MixedBackingMode, "nil"}

\* three entries, the MIG-backed one met last
C15_Witness ==
    /\ ret.op = "AssertValid"
    /\ AllParseAllPositive(arg.config)
    /\ Len(ret.order) = MaxEntries
    /\ \A n \in 1 .. Len(ret.order) - 1 : timeSlicedRegex(ret.order[n]) # {}
    /\ migBackedRegex(ret.order[Len(ret.order)]) # {}
    /\ ret.err = MixedBackingMode

\* C16: AssertValid accepts the empty VGPUConfig and rejects every
\* VGPUConfig that has an entry whose count is zero or negative, the config
\* whose counts are all zero included.
C16_EmptyValidNonPositiveInvalid ==
    ret.op = "AssertValid"
    => /\ DOMAIN arg.config = {} => ret.err = "nil"
       /\ (\E key \in DOMAIN arg.config : arg.config[key] <= 0) => ret.err # "nil"

\* a zero count met after a positive one
C16_Witness ==
    /\ ret.op = "AssertValid"
    /\ Len(ret.order) > 1
    /\ \A key \in DOMAIN arg.config : ~ParseVGPUType(key).nil
    /\ arg.config[ret.order[1]] > 0
    /\ arg.config[ret.order[Len(ret.order)]] = 0
    /\ ret.err = "invalid count"

\* C17: String of the type that ParseVGPUType returns for a string is that
\* string, for the time-sliced names and for the MIG-backed names with and
\* without an attribute.
C17_StringOfParseIsIdentity ==
    ret.op = "String" => ret.out = arg.name

\* a MIG-backed name with an attribute, formatted
C17_Witness ==
    /\ ret.op = "String"
    /\ ret.v.G > 0
    /\ ret.v.GB >= 10
    /\ ret.v.Attr = <<AttributeNoMediaExtensions>>
    /\ ret.out = arg.name

Letters == UpperCase \cup LowerCase

\* the letters a name ends with: its series letter and its attribute
TrailingLetters(str) ==
    LET from == {n \in 1 .. Len(str) + 1 : AllIn(SubSeq(str, n, Len(str)), Letters)}
        first == CHOOSE n \in from : \A k \in from : n <= k
    IN  SubSeq(str, first, Len(str))

Malformed(str) ==
    LET letters == TrailingLetters(str)
    IN  \/ str = <<>>
        \/ \E n \in DOMAIN str : str[n] = " "
        \/ /\ letters # <<>>
           /\ \/ letters[1] \in LowerCase
              \/ letters[1] \notin {"A", "B", "C", "Q"}
              \/ \E n \in DOMAIN letters : letters[n] \in LowerCase
              \/ /\ Len(letters) > 1
                 /\ Tail(letters) \notin
                      {AttributeMediaExtensions, AttributeNoMediaExtensions,
                       AttributeMediaExtensionsAll, AttributeGraphics}

\* C18: ParseVGPUType returns an error and no type for the empty string and
\* for every string with whitespace anywhere, with a lower-case series
\* letter or attribute, with a series letter other than A, B, C, Q, or with
\* a trailing attribute other than ME, NOME, MEALL, GFX.
C18_MalformedNamesAreRejected ==
    (ret.op = "ParseVGPUType" /\ Malformed(arg.name))
    => ret.r.nil /\ ret.r.err # "nil"

\* a MIG-backed name whose only fault is its lower-case attribute
C18_Witness ==
    /\ ret.op = "ParseVGPUType"
    /\ ret.r.nil
    /\ \E n \in DOMAIN arg.name :
         /\ n > 1
         /\ migBackedRegex(SubSeq(arg.name, 1, n - 1)) # {}
         /\ SubSeq(arg.name, n, Len(arg.name)) = <<"m", "e">>

\* C19: the type ParseVGPUType returns has G > 0 exactly when the string
\* matches the MIG-backed form, and no string matches both the time-sliced
\* form and the MIG-backed form.
C19_GPositiveIffMigBackedForm ==
    /\ (ret.op = "ParseVGPUType" /\ ~ret.r.nil)
       => (ret.r.type.G > 0 <=> migBackedRegex(arg.name) # {})
    /\ arg.kind = "name"
       => ~(timeSlicedRegex(arg.name) # {} /\ migBackedRegex(arg.name) # {})

\* a MIG-backed name parsed
C19_Witness ==
    /\ ret.op = "ParseVGPUType"
    /\ ~ret.r.nil
    /\ ret.r.type.G > 0
    /\ migBackedRegex(arg.name) # {}

\* C20: stripVGPUConfigSuffix removes at most one attribute, and only from
\* the end of the name: all of MEALL from a name that ends in MEALL, all of
\* NOME from a name that ends in NOME, the ME or the GFX from a name that
\* ends in it, and nothing from any other name.
C20_OneSuffixFromTheEnd ==
    ret.op = "stripVGPUConfigSuffix"
    => LET name == arg.name
           cut == SubSeq(name, Len(ret.out) + 1, Len(name))
       IN  /\ Len(ret.out) <= Len(name)
           /\ ret.out = SubSeq(name, 1, Len(ret.out))
           /\ HasSuffix(name, AttributeMediaExtensionsAll)
              => cut = AttributeMediaExtensionsAll
           /\ HasSuffix(name, AttributeNoMediaExtensions)
              => cut = AttributeNoMediaExtensions
           /\ (/\ HasSuffix(name, AttributeMediaExtensions)
               /\ ~HasSuffix(name, AttributeNoMediaExtensions))
              => cut = AttributeMediaExtensions
           /\ HasSuffix(name, AttributeGraphics) => cut = AttributeGraphics
           /\ (/\ ~HasSuffix(name, AttributeMediaExtensionsAll)
               /\ ~HasSuffix(name, AttributeMediaExtensions)
               /\ ~HasSuffix(name, AttributeGraphics))
              => ret.out = name

\* of a name that ends in NOMEME only the last ME is removed
C20_Witness ==
    /\ ret.op = "stripVGPUConfigSuffix"
    /\ HasSuffix(arg.name, AttributeNoMediaExtensions \o AttributeMediaExtensions)
    /\ HasSuffix(ret.out, AttributeNoMediaExtensions)
    /\ Len(ret.out) = Len(arg.name) - Len(AttributeMediaExtensions)

-----------------------------------------------------------------------------
(* The engine: the sentinel of the availability query, the phases of       *)
(* SetVGPUConfig, the names it sanitizes to and what it does on a failure. *)

\* the parent can take no further instance of the type
NoRoom(vfio, k, p, t) ==
    \/ \E i \in DOMAIN k[p] : k[p][i] # t
    \/ Len(k[p]) >= MaxInstances(vfio, p, t)

\* C24: GetAvailableVGPUInstances of a parent returns a negative number only
\* for a type the parent does not support; for a type it supports and has no
\* room left for it returns 0.  (The number returned together with an error
\* is no answer and is left out.)
C24_NegativeOnlyForUnsupportedType ==
    /\ \A i \in DOMAIN last.log :
          (last.log[i].op = "avail" /\ last.log[i].ok /\ last.log[i].val < 0)
            => last.log[i].type \notin SupportedTypes(last.log[i].parent)
    /\ \A p \in ParentIds : \A t \in SupportedTypes(p) :
          LET r == GetAvailableVGPUInstances(isVFIOMode, NewContext(vgpus), NoFault, p, t)
          IN  /\ IsNil(r.err)
              /\ r.val >= 0
              /\ NoRoom(isVFIOMode, vgpus, p, t) => r.val = 0

\* CreateVGPUDevices asked a full parent for a type it supports and got 0
C24_Witness ==
    \E i \in DOMAIN last.log :
        /\ last.op = "CreateVGPUDevices"
        /\ last.log[i].op = "avail" /\ last.log[i].ok /\ last.log[i].val = 0
        /\ last.log[i].type \in SupportedTypes(last.log[i].parent)
        /\ Len(last.pre[last.log[i].parent])
             >= MaxInstances(isVFIOMode, last.log[i].parent, last.log[i].type)

\* the devices of the GPU in kernel state k
DevicesOfGPU(k, gpu) ==
    {pi \in UNION {{<<p, i>> : i \in DOMAIN k[p]} : p \in ParentIds} :
        GetPhysicalFunction(pi[1]) = gpu}

Deletes == {i \in DOMAIN last.log : last.log[i].op = "delete"}

Creates == {i \in DOMAIN last.log : last.log[i].op = "create"}

\* C26: within one SetVGPUConfig call no instance is deleted before every
\* requested type has been sanitized, no instance is created before
\* Clearing has deleted every instance of the GPU without an error, no
\* instance is deleted after the first create, and nothing is created when
\* Clearing fails.
C26_SanitizingClearingCreating ==
    last.op \in SetOps =>
        /\ Writes # {} =>
              \A key \in DOMAIN last.config :
                  /\ key \in DOMAIN last.san
                     \/ stripVGPUConfigSuffix(key) \in DOMAIN last.san
                  /\ last.op = "SetVGPUConfig" =>
                        \E j \in DOMAIN last.log :
                            /\ \A w \in Writes : j < w
                            /\ last.log[j].op = "check"
                            /\ last.log[j].ok /\ last.log[j].val = 1
                            /\ last.log[j].type \in {key, stripVGPUConfigSuffix(key)}
        /\ \A i \in Creates :
              /\ \A d \in Deletes : d < i /\ last.log[d].ok
              /\ Cardinality(Deletes) = Cardinality(DevicesOfGPU(last.pre, last.gpu))
        /\ (\E d \in Deletes : ~last.log[d].ok) => Creates = {}
        /\ last.err.kind = "ClearVGPUConfig" => Creates = {}

\* two requested types sanitized, the device of the GPU deleted, then
\* devices created
C26_Witness ==
    /\ last.op = "SetVGPUConfig"
    /\ Cardinality(DOMAIN last.config) = 2
    /\ Deletes # {}
    /\ Creates # {}
    /\ IsNil(last.err)

\* the call got past Sanitizing
SanitizedThrough ==
    last.err.kind \notin {"GetGPUByIndex", "GetAllParentDevices", "NoParents",
                          "GetSupportedVgpus", "Unsupported"}

\* C27: for every requested type whose exact name the GPU supports, the
\* sanitized config uses the exact name; the suffix-stripped name is used
\* only for a name the GPU does not support.
C27_ExactNameWhenSupported ==
    (last.op \in SetOps /\ SanitizedThrough) =>
        \A key \in DOMAIN last.config :
            SupportedByGPU(last.gpu, key) => key \in DOMAIN last.san

\* C28: during Creating a parent that has no available instance of the type
\* is skipped and the next parent is asked: the call does not fail at such
\* a parent while a later parent of the GPU can still take the type.
C28_ParentWithoutRoomIsSkipped ==
    last.op = "SetVGPUConfig" =>
        \A i \in DOMAIN last.log :
            ( /\ last.log[i].op = "check" /\ last.log[i].ok /\ last.log[i].val = 0
              /\ \E b \in DOMAIN last.log : b < i /\ last.log[b].op = "begin"
              /\ \E p \in ParentIds :
                    /\ p > last.log[i].parent
                    /\ GetPhysicalFunction(p) = last.gpu
                    /\ Available(isVFIOMode, vgpus, p, last.log[i].type) > 0 )
              => /\ i < Len(last.log)
                 /\ last.err.kind # "NotSupported"

\* C29: a failed read of parent or device state during Sanitizing or
\* Creating, and a failed create, ends the SetVGPUConfig call with an
\* error: it is the last thing the call does, no availability check, delete
\* or create follows it.
C29_FailureEndsTheCall ==
    last.op = "SetVGPUConfig" =>
        \A i \in DOMAIN last.log :
            (last.log[i].op \in {"check", "avail", "create"} /\ ~last.log[i].ok)
              => /\ i = Len(last.log)
                 /\ ~IsNil(last.err)

-----------------------------------------------------------------------------
(* The claims about Equals and about the iteration order of AssertValid.   *)

\* C21: a.Equals(b) is true exactly when a and b hold the same (type, count)
\* pairs, so that it is true of every config and itself, and b.Equals(a)
\* answers what a.Equals(b) answers.
C21_EqualsIsSetEquality ==
    ret.op = "Equals"
    => /\ ret.val <=> arg.a = arg.b
       /\ Equals(arg.b, arg.a) <=> ret.val

\* C30: whatever AssertValid answers for a config when the map is iterated in
\* one order (no error, or the kind of the error), it answers when the map is
\* iterated in any other order.
C30_AssertValidOrderIndependent ==
    ret.op = "AssertValid"
    => \A order \in Perms(DOMAIN arg.config) :
         AssertValid(arg.config, order) = ret.err

-----------------------------------------------------------------------------
(* The claim about the conversion into a MIG configuration.                *)

\* the profile name of a MIG-backed type as the tests of the conversion
\* write it
ProfileOf(t) ==
    Itoa(t.G) \o <<"g", ".">> \o Itoa(t.GB) \o <<"g", "b">>
      \o (IF Join(t.Attr) = <<>> THEN <<>>
          ELSE IF Join(t.Attr) = AttributeMediaExtensions THEN <<"+", "m", "e">>
          ELSE IF Join(t.Attr) = AttributeNoMediaExtensions THEN <<"-", "m", "e">>
          ELSE IF Join(t.Attr) = AttributeMediaExtensionsAll
               THEN <<"+", "m", "e", ".", "a", "l", "l">>
          ELSE <<"+", "g", "f", "x">>)

MigBackedKeys(v) == {key \in DOMAIN v : migBackedRegex(key) # {}}

\* C25: when ToMigConfigSpecSlice succeeds, the i-th entry of the result has
\* the device-filter and the devices of the i-th entry converted; its
\* MigDevices are exactly the profiles <G>g.<GB>gb with +me, -me, +me.all or
\* +gfx for the attribute, of the MIG-backed types of the entry, each with the
\* count of a type of that profile; time-sliced types add nothing; and
\* MigEnabled is true exactly when the entry has a MIG-backed type.
C25_MigEntryPerVGPUEntry ==
    (ret.op = "ToMigConfigSpecSlice" /\ ~ret.r.nil)
    => /\ Len(ret.r.specs) = Len(arg.s)
       /\ \A i \in DOMAIN arg.s :
            LET in == arg.s[i]
                out == ret.r.specs[i]
                mig == MigBackedKeys(in.VGPUDevices)
            IN  /\ out.DeviceFilter = in.DeviceFilter
                /\ out.Devices = in.Devices
                /\ out.MigEnabled <=> mig # {}
                /\ DOMAIN out.MigDevices
                     = {ProfileOf(ParseVGPUType(key).type) : key \in mig}
                /\ \A profile \in DOMAIN out.MigDevices :
                     \E key \in mig :
                        /\ ProfileOf(ParseVGPUType(key).type) = profile
                        /\ out.MigDevices[profile] = in.VGPUDevices[key]

-----------------------------------------------------------------------------
(* The construction of the manager: the detection of the backend on the    *)
(* host, and the routing of the calls of the constructed manager.          *)

\* the hosts a manager is constructed on: built from the package vgpu or from
\* the package vgpu_combined, with or without a GPU of index 0, with or
\* without creatable_vgpu_types under the first virtual function of that GPU
Hosts ==
    [kind : {"host"}, pkg : {"vgpu", "vgpu_combined"}, gpu0 : BOOLEAN,
     creatable : BOOLEAN]

Detected(val, err) == [val |-> val, err |-> err]

\* VFIOManager.IsVFIOEnabled(0)
VFIOManagerIsVFIOEnabled(host) ==
    IF ~host.gpu0 THEN Detected(FALSE, "unable to get GPU by index")
    ELSE IF host.creatable THEN Detected(TRUE, "nil")
    ELSE Detected(FALSE, "unable to stat creatable_vgpu_types file")

\* Nvvfio.IsVFIOEnabled(0)
NvvfioIsVFIOEnabled(host) ==
    IF ~host.gpu0 THEN Detected(FALSE, "unable to get GPU by index")
    ELSE IF host.creatable THEN Detected(TRUE, "nil")
    ELSE Detected(FALSE, "nil")

\* what a constructor returns: the detection it made on the host, whether the
\* manager returned is nil, the error, and the backend of the manager
Constructed(op, host, detected, e) ==
    [op |-> op, host |-> host, detected |-> detected, nil |-> e # "nil",
     err |-> e, isVFIOMode |-> e = "nil" /\ detected.val, backend |-> "none",
     val |-> <<>>]

NewVGPUCombinedManager(host) ==
    LET detected == VFIOManagerIsVFIOEnabled(host)
    IN  IF detected.err # "nil"
        THEN Constructed("NewVGPUCombinedManager", host, detected,
                         "error checking if VFIO is enabled")
        ELSE Constructed("NewVGPUCombinedManager", host, detected, "nil")

\* New of the package vgpu: the Nvvfio instance or a new Nvmdev
New(host) ==
    LET detected == NvvfioIsVFIOEnabled(host)
    IN  IF detected.err # "nil"
        THEN Constructed("New", host, detected, "error checking VFIO mode")
        ELSE Constructed("New", host, detected, "nil")

\* a routing that looks at the host again at every call
MutActiveBackend(m, host) ==
    IF host.gpu0 /\ host.creatable THEN "vfio" ELSE "nvmdev"

\* the backend a call of the manager goes to: m.isVFIOMode of the combined
\* manager, the type of the instance New returned
ActiveBackend(m, host) == IF m THEN "vfio" ELSE "nvmdev"

InitManager ==
    /\ NoCalls
    /\ NoPasses
    /\ NoDaemon
    /\ arg \in Hosts
    /\ ret = [op |-> "none"]

ManagerFrame == UNCHANGED <<passVars, syncVars>>

CallNewVGPUCombinedManager ==
    /\ arg.pkg = "vgpu_combined"
    /\ ret.op = "none"
    /\ ret' = NewVGPUCombinedManager(arg)
    /\ isVFIOMode' = ret'.isVFIOMode
    /\ UNCHANGED <<vgpus, last, calls, arg>>
    /\ ManagerFrame

CallNew ==
    /\ arg.pkg = "vgpu"
    /\ ret.op = "none"
    /\ ret' = New(arg)
    /\ isVFIOMode' = ret'.isVFIOMode
    /\ UNCHANGED <<vgpus, last, calls, arg>>
    /\ ManagerFrame

\* the virtual functions of GPU 0 are enabled or disabled on the host
HostChange ==
    /\ arg.gpu0
    /\ arg' = [arg EXCEPT !.creatable = ~@]
    /\ UNCHANGED <<engineVars, ret>>
    /\ ManagerFrame

\* a manager has been returned and may be called once more
Callable ==
    /\ ret.op # "none"
    /\ ~ret.nil
    /\ calls < MaxCalls
    /\ calls' = calls + 1
    /\ UNCHANGED <<isVFIOMode, arg>>
    /\ ManagerFrame

ManagerGetAllParentDevices ==
    /\ Callable
    /\ \E f \in Faults :
         LET r == GetAllParentDevices(NewContext(vgpus), f)
         IN  /\ last' = Outcome("GetAllParentDevices", 0, "", EmptyConfig, f, vgpus,
                                Failed(r.c, r.err))
             /\ ret' = [ret EXCEPT !.op = "GetAllParentDevices",
                                   !.backend = ActiveBackend(isVFIOMode, arg),
                                   !.val = r.val]
    /\ UNCHANGED vgpus

ManagerGetAllDevices ==
    /\ Callable
    /\ \E f \in Faults :
         LET r == GetAllDevices(NewContext(vgpus), f)
         IN  /\ last' = Outcome("GetAllDevices", 0, "", EmptyConfig, f, vgpus,
                                Failed(r.c, r.err))
             /\ ret' = [ret EXCEPT !.op = "GetAllDevices",
                                   !.backend = ActiveBackend(isVFIOMode, arg),
                                   !.val = r.val]
    /\ UNCHANGED vgpus

ManagerCreateVGPUDevices ==
    /\ Callable
    /\ \E gpu \in GPUs, vgpuType \in CreateTypes, count \in CreateCounts, f \in Faults :
         LET backend == ActiveBackend(isVFIOMode, arg)
             c == CreateVGPUDevices(backend = "vfio", NewContext(vgpus), f, gpu,
                                    vgpuType, count)
         IN  /\ vgpus' = c.k
             /\ last' = Outcome("CreateVGPUDevices", gpu, "", One(vgpuType, count), f,
                                vgpus, c)
             /\ ret' = [ret EXCEPT !.op = "CreateVGPUDevices", !.backend = backend,
                                   !.val = <<>>]

NextManager ==
    \/ CallNewVGPUCombinedManager
    \/ CallNew
    \/ HostChange
    \/ ManagerGetAllParentDevices
    \/ ManagerGetAllDevices
    \/ ManagerCreateVGPUDevices

SpecManager == InitManager /\ [][NextManager]_vars

ManagerCalls == {"GetAllParentDevices", "GetAllDevices", "CreateVGPUDevices"}

\* C22: once a manager has been returned its backend mode stays what the
\* detection at construction chose, whatever happens on the host, and every
\* GetAllParentDevices, GetAllDevices and CreateVGPUDevices made of it goes
\* to the backend of that mode.
C22_ModeFixedAtConstruction ==
    [][(ret.op # "none" /\ ~ret.nil)
       => /\ isVFIOMode' = isVFIOMode
          /\ isVFIOMode' = ret'.detected.val
          /\ ret'.op \in ManagerCalls
             => ret'.backend = IF ret.detected.val THEN "vfio" ELSE "nvmdev"]_vars

\* a manager of the mediated-device backend creates devices after the
\* virtual functions have appeared on the host
C22_Witness ==
    /\ ret.op = "CreateVGPUDevices"
    /\ ~ret.host.creatable
    /\ arg.creatable
    /\ ret.backend = "nvmdev"
    /\ last.op = "CreateVGPUDevices"
    /\ vgpus # last.pre

\* C23: a construction on a host whose GPU 0 has no creatable_vgpu_types
\* under its first virtual function detects 'not VFIO' without an error and
\* returns a manager of the mediated-device backend.
C23_AbsentFileSelectsMdev ==
    (ret.op \in {"New", "NewVGPUCombinedManager"} /\ ret.host.gpu0
       /\ ~ret.host.creatable)
    => /\ ret.detected = Detected(FALSE, "nil")
       /\ ~ret.nil
       /\ ret.err = "nil"
       /\ ~isVFIOMode

-----------------------------------------------------------------------------
(* The iteration order of the conversion into a MIG configuration.         *)

\* the orders in which the maps of the entries of a slice can be iterated
OrdersOf(s) ==
    {o \in UNION {[DOMAIN s -> Perms(keys)] :
                    keys \in {DOMAIN s[i].VGPUDevices : i \in DOMAIN s}} :
        \A i \in DOMAIN s : o[i] \in Perms(DOMAIN s[i].VGPUDevices)}

\* C39: what ToMigConfigSpecSlice returns for a slice when the vgpu-devices
\* of its entries are iterated in one order, it returns when they are
\* iterated in any other order.
C39_ConversionOrderIndependent ==
    ret.op = "ToMigConfigSpecSlice"
    => \A orders \in OrdersOf(arg.s) : ToMigConfigSpecSlice(arg.s, orders) = ret.r

-----------------------------------------------------------------------------
(* The engine: what Sanitizing keeps of the requested config.              *)

\* the sum of the counts of a VGPUConfig
RECURSIVE SumOfCounts(_)
SumOfCounts(v) ==
    IF DOMAIN v = {} THEN 0
    ELSE LET key == CHOOSE t \in DOMAIN v : TRUE
         IN  v[key] + SumOfCounts([t \in DOMAIN v \ {key} |-> v[t]])

\* C31: whenever Sanitizing has gone through the whole requested config, the
\* sanitized config has as many entries as the requested config and its
\* counts add up to the sum of the requested counts.
C31_SanitizingKeepsEveryEntry ==
    (last.op \in SetOps /\ SanitizedThrough)
    => /\ Cardinality(DOMAIN last.san) = Cardinality(DOMAIN last.config)
       /\ SumOfCounts(last.san) = SumOfCounts(last.config)


(* The engine: the virtual functions a call writes to. *)
\* the parent holds an instance when entry i of the trace of the call is
\* made: one it held before the call and has not been deleted, or one the
\* call has created
OccupiedBefore(i, p) ==
    \/ \E j \in 1 .. i - 1 : /\ last.log[j].op = "create" /\ last.log[j].ok
                             /\ last.log[j].parent = p
    \/ /\ last.pre[p] # <<>>
       /\ ~\E j \in 1 .. i - 1 : /\ last.log[j].op = "delete" /\ last.log[j].ok
                                 /\ last.log[j].parent = p

Selects(vc, gpu) == MatchesDeviceFilter(vc, DeviceIDOf(gpu)) /\ MatchesDevices(vc, gpu)

\* what GetVGPUConfig returns for the GPU in the current state
CurrentConfig(gpu) == GetVGPUConfig(isVFIOMode, NewContext(vgpus), NoFault, gpu).val

\* C33: an assert that meets no I/O error succeeds exactly when every GPU
\* that an entry of the selected configuration selects has a current config
\* equal to the vgpu-devices of that entry; the GPUs no entry selects have no
\* part in the result.
C33_AssertDependsOnSelectedGPUs ==
    (last.op = "assert" /\ last.hit = NoFault)
    => ( IsNil(last.err)
         <=> \A e \in DOMAIN ConfigFile[last.name], gpu \in GPUs :
                Selects(ConfigFile[last.name][e], gpu)
                => CurrentConfig(gpu) = ConfigFile[last.name][e].vgpuDevices )


(* The daemon: the configuration names that reach updateConfig. *)
\* C34: no Get returns the empty string and updateConfig is never called
\* with the empty string, whatever happens to the label of the node.
C34_GetNeverReturnsEmpty ==
    /\ \A n \in DOMAIN hist.gets : hist.gets[n].value # ""
    /\ \A n \in DOMAIN hist.passed : hist.passed[n].value # ""


-----------------------------------------------------------------------------
(* The daemon: updateConfig and the deploy labels of the GPU operands.     *)
(* arg is the node (its labels and the vGPU configuration applied to it),  *)
(* ret is the daemon: pluginDeployed, validatorDeployed and what the last  *)
(* updateConfig returned.                                                  *)

Paused == "paused-for-vgpu-change"

\* values of nvidia.com/gpu.deploy.sandbox-device-plugin and
\* nvidia.com/gpu.deploy.sandbox-validator
DeployValues == {"", "false", "true", Paused}

\* names the label nvidia.com/vgpu.config may take; the configuration file
\* has a and b
UpdateNames == {"a", "b", "missing"}

\* the step of updateConfig at which the API server or a command fails
UpdateFaults ==
    {"none", "getNodeStateLabels", "setNodeLabelValue", "shutdownGet",
     "shutdownUpdate", "waitForPodDeletion", "handleMIGConfiguration",
     "applyConfig", "rescheduleGet", "rescheduleUpdate"}

maybeSetPaused(currentValue) ==
    IF currentValue = "false" \/ currentValue = "" THEN currentValue ELSE Paused

maybeSetTrue(currentValue) ==
    IF currentValue = "false" \/ currentValue = "" THEN currentValue ELSE "true"

getVGPUConfigStateValue(err) == IF err # "nil" THEN "failed" ELSE "success"

\* what a step returns: the node, the package variables and the error
Step(n, g, e) == [node |-> n, globals |-> g, err |-> e]

getNodeStateLabels(n, g, f) ==
    IF f = "getNodeStateLabels" THEN Step(n, g, "unable to get node object")
    ELSE Step(n, [pluginDeployed |-> n.plugin, validatorDeployed |-> n.validator], "nil")

shutdownGPUOperands(n, g, f) ==
    LET paused == [pluginDeployed |-> maybeSetPaused(g.pluginDeployed),
                   validatorDeployed |-> maybeSetPaused(g.validatorDeployed)]
        updated == [n EXCEPT !.plugin = paused.pluginDeployed,
                             !.validator = paused.validatorDeployed]
    IN  IF f = "shutdownGet" THEN Step(n, g, "unable to get node object")
        ELSE IF f = "shutdownUpdate" THEN Step(n, paused, "unable to update node object")
        ELSE IF f = "waitForPodDeletion"
        THEN Step(updated, paused, "error shutting down sandbox-device-plugin")
        ELSE Step(updated, paused, "nil")

rescheduleGPUOperands(n, g, f) ==
    IF f = "rescheduleGet" THEN Step(n, g, "unable to get node object")
    ELSE IF f = "rescheduleUpdate" THEN Step(n, g, "unable to update node object")
    ELSE Step([n EXCEPT !.plugin = maybeSetTrue(g.pluginDeployed),
                        !.validator = maybeSetTrue(g.validatorDeployed)],
              g, "nil")

\* updateConfig from the shutdown of the operands on
UpdateFromShutdown(n, g, selected, f, left) ==
    LET down == shutdownGPUOperands(n, g, f)
    IN  IF down.err # "nil" THEN Step(down.node, down.globals, "unable to shutdown gpu operands")
        ELSE IF f = "handleMIGConfiguration"
        THEN Step(down.node, down.globals, "unable to handle MIG configuration")
        ELSE IF f = "applyConfig"
        THEN Step([down.node EXCEPT !.applied = left], down.globals, "unable to apply config")
        ELSE LET up == rescheduleGPUOperands([down.node EXCEPT !.applied = selected],
                                             down.globals, f)
             IN  IF up.err # "nil"
                 THEN Step(up.node, up.globals, "unable to reschedule gpu operands")
                 ELSE up

\* updateConfig.  left is what a failed apply leaves on the node.
UpdateConfig(n, g, selected, f, left) ==
    IF selected \notin {"a", "b"}
    THEN Step(n, g, "unable to validate the selected vGPU configuration")
    ELSE IF n.applied = selected THEN Step(n, g, "nil")
    ELSE LET labels == getNodeStateLabels(n, g, f)
         IN  IF labels.err # "nil"
             THEN Step(n, g, "unable to get node state labels")
             ELSE IF f = "setNodeLabelValue"
             THEN Step(n, labels.globals, "error setting vGPU config state label")
             ELSE UpdateFromShutdown([n EXCEPT !.state = "pending"], labels.globals,
                                     selected, f, left)

InitUpdate ==
    /\ NoCalls
    /\ NoPasses
    /\ NoDaemon
    /\ arg \in [kind : {"node"}, plugin : DeployValues \ {Paused},
                validator : DeployValues \ {Paused}, state : {""},
                applied : {"a", "b", "none"}]
    /\ ret = [op |-> "none", selectedConfig |-> "", err |-> "nil", rescheduled |-> FALSE,
              pluginDeployed |-> "", validatorDeployed |-> ""]

\* one round of the loop of start: updateConfig with the value of the label,
\* then the state label, whose update may fail unnoticed
LoopUpdateConfig ==
    /\ \E selected \in UpdateNames, f \in UpdateFaults,
          left \in {arg.applied, "none"}, labelled \in BOOLEAN :
        LET r == UpdateConfig(arg,
                              [pluginDeployed |-> ret.pluginDeployed,
                               validatorDeployed |-> ret.validatorDeployed],
                              selected, f, left)
        IN  /\ arg' = IF labelled
                      THEN [r.node EXCEPT !.state = getVGPUConfigStateValue(r.err)]
                      ELSE r.node
            /\ ret' = [op |-> "updateConfig", selectedConfig |-> selected,
                       err |-> r.err,
                       rescheduled |-> r.err = "nil" /\ arg.applied # selected,
                       pluginDeployed |-> r.globals.pluginDeployed,
                       validatorDeployed |-> r.globals.validatorDeployed]
    /\ UNCHANGED <<engineVars, passVars, syncVars>>

\* the GPU operator or an administrator enables or disables an operand
OperatorSetsLabel ==
    /\ \E v \in {"true", "false"} :
        \/ arg' = [arg EXCEPT !.plugin = v]
        \/ arg' = [arg EXCEPT !.validator = v]
    /\ ret' = [ret EXCEPT !.op = "none"]
    /\ UNCHANGED <<engineVars, passVars, syncVars>>

NextUpdate == LoopUpdateConfig \/ OperatorSetsLabel

SpecUpdate == InitUpdate /\ [][NextUpdate]_vars

\* C35: whenever updateConfig has returned success, neither deploy label of
\* the node is left at paused-for-vgpu-change.
C35_NoOperandLeftPaused ==
    (ret.op = "updateConfig" /\ ret.err = "nil")
    => (arg.plugin # Paused /\ arg.validator # Paused)

\* C35 for a call that went through rescheduleGPUOperands
C35_AfterReschedule ==
    (ret.op = "updateConfig" /\ ret.rescheduled)
    => (arg.plugin # Paused /\ arg.validator # Paused)


-----------------------------------------------------------------------------
(* reconfigureMIG, one step at a time.  arg is the host and the options:   *)
(* the state label of the node, whether the MIG mode and the MIG config of *)
(* the selected configuration are applied, the systemd units, the number   *)
(* of reboots.  ret is the running call: where it is, its local variables, *)
(* hostGPUClientServicesStopped, and a record of the systemctl stop and    *)
(* start commands that it has issued with success or at all.               *)

configStateRebooting == "rebooting"

HostKubeletService == "kubelet.service"

\* opts.HostGPUClientServices as configured
HostGPUClientServices == <<"dcgm.service">>

\* what systemctl is-active, is-enabled, is-failed and show --property=Type
\* tell of a unit
UnitStates == {"active", "inactive", "failed", "oneshot", "disabled"}

MaxRuns == 2

NoRun ==
    [op |-> "none", pc |-> "none", state |-> "", migModeChangeRequired |-> FALSE,
     services |-> <<>>, i |-> 0, hostGPUClientServicesStopped |-> <<>>,
     retCode |-> 0, err |-> "nil", stopped |-> {}, started |-> {},
     labelSet |-> FALSE, labelAtStart |-> "", modeAtStart |-> FALSE, runs |-> 0]

\* the call returns
Return(r, e) == [r EXCEPT !.pc = "returned", !.err = e]

\* processSystemdService(opts, service, "stop"); ok: the systemctl command
\* that changes or shows the unit succeeds
processSystemdService(unit, r, service, ok) ==
    LET noted == [r EXCEPT !.hostGPUClientServicesStopped = <<service>> \o @]
    IN  IF unit[service] = "active"
        THEN IF ok
             THEN [unit |-> [unit EXCEPT ![service] = "inactive"],
                   r |-> [noted EXCEPT !.stopped = @ \cup {service}], err |-> "nil"]
             ELSE [unit |-> unit, r |-> r, err |-> "systemctl stop"]
        ELSE IF unit[service] = "disabled" THEN [unit |-> unit, r |-> r, err |-> "nil"]
        ELSE IF unit[service] = "failed" THEN [unit |-> unit, r |-> noted, err |-> "nil"]
        ELSE IF ~ok THEN [unit |-> unit, r |-> r, err |-> "systemctl show"]
        ELSE IF unit[service] = "oneshot" THEN [unit |-> unit, r |-> r, err |-> "nil"]
        ELSE [unit |-> unit, r |-> noted, err |-> "nil"]

shouldRestartService(unit, service) == unit[service] \in {"failed", "inactive"}

\* the check "if state == configStateRebooting" left out
MutAfterReboot(state) == FALSE

\* "if state == configStateRebooting": the MIG mode is asserted after a reboot
AfterReboot(state) == state = configStateRebooting

\* where reconfigureMIG goes when the MIG mode could not be applied
OnModeFailure(withReboot) == IF withReboot THEN "setNodeLabelValue" ELSE "applyMIGConfig"

InitMIG ==
    /\ NoCalls
    /\ NoPasses
    /\ NoDaemon
    /\ arg \in [kind : {"host"}, state : {"pending", configStateRebooting},
                mode : BOOLEAN, config : {FALSE}, stateFile : BOOLEAN,
                unit : [{"dcgm.service", HostKubeletService} -> UnitStates],
                WithReboot : BOOLEAN, WithShutdownHostGPUClients : BOOLEAN,
                reboots : {0}]
    /\ ret = NoRun

MIGFrame == UNCHANGED <<engineVars, passVars, syncVars>>

\* reconfigureMIG is called
Reconfigure ==
    /\ ret.pc \in {"none", "returned"}
    /\ ret.runs < MaxRuns
    /\ ret' = [NoRun EXCEPT !.op = "reconfigureMIG", !.pc = "validate",
                            !.services = HostGPUClientServices,
                            !.labelAtStart = arg.state, !.modeAtStart = arg.mode,
                            !.runs = ret.runs + 1]
    /\ UNCHANGED arg
    /\ MIGFrame

\* validate.Struct(opts) and assertValidMIGConfig
Validate ==
    /\ ret.pc = "validate"
    /\ \E ok \in BOOLEAN :
        ret' = IF ok THEN [ret EXCEPT !.pc = "getNodeLabelValue"]
               ELSE Return(ret, "invalid options or configuration")
    /\ UNCHANGED arg
    /\ MIGFrame

\* state, err := getNodeLabelValue(clientset, vGPUConfigStateLabel)
GetState ==
    /\ ret.pc = "getNodeLabelValue"
    /\ \E ok \in BOOLEAN :
        ret' = IF ok THEN [ret EXCEPT !.pc = "assertMIGConfig", !.state = arg.state]
               ELSE Return(ret, "unable to get node object")
    /\ UNCHANGED arg
    /\ MIGFrame

\* assertMIGConfig and, if the state file exists, hostPersistConfig
AssertMIGConfig ==
    /\ ret.pc = "assertMIGConfig"
    /\ \E ok \in BOOLEAN :
        ret' = IF arg.config THEN Return(ret, "nil")
               ELSE IF arg.stateFile /\ ~ok THEN Return(ret, "unable to persist")
               ELSE [ret EXCEPT !.pc = "assertMIGModeOnly"]
    /\ UNCHANGED arg
    /\ MIGFrame

\* the first assertMIGModeOnly and what follows from it
AssertMIGModeOnly ==
    /\ ret.pc = "assertMIGModeOnly"
    /\ LET next == IF arg.WithShutdownHostGPUClients THEN "hostStopSystemdServices"
                   ELSE "applyMIGModeOnly"
       IN  ret' =
            IF arg.mode THEN [ret EXCEPT !.pc = next, !.i = 1]
            ELSE IF AfterReboot(ret.state)
            THEN Return(ret, "MIG mode change failed after reboot")
            ELSE [ret EXCEPT !.pc = next, !.i = 1, !.migModeChangeRequired = TRUE,
                             !.services = IF arg.WithShutdownHostGPUClients
                                          THEN Append(@, HostKubeletService) ELSE @]
    /\ UNCHANGED arg
    /\ MIGFrame

\* hostStopSystemdServices: one turn of its loop
StopService ==
    /\ ret.pc = "hostStopSystemdServices"
    /\ IF ret.i > Len(ret.services)
       THEN /\ ret' = [ret EXCEPT !.pc = "applyMIGModeOnly"]
            /\ UNCHANGED arg
       ELSE \E ok \in BOOLEAN :
            LET p == processSystemdService(arg.unit, ret, ret.services[ret.i], ok)
            IN  /\ arg' = [arg EXCEPT !.unit = p.unit]
                /\ ret' = IF p.err # "nil" THEN Return(p.r, p.err)
                          ELSE [p.r EXCEPT !.i = @ + 1]
    /\ MIGFrame

\* applyMIGModeOnly and the second assertMIGModeOnly; without a reboot the
\* mode takes effect or does not
ApplyMIGModeOnly ==
    /\ ret.pc = "applyMIGModeOnly"
    /\ \E ok \in BOOLEAN :
        /\ arg' = [arg EXCEPT !.mode = @ \/ ok]
        /\ ret' = IF arg.mode \/ ok THEN [ret EXCEPT !.pc = "applyMIGConfig"]
                  ELSE [ret EXCEPT !.pc = OnModeFailure(arg.WithReboot)]
    /\ MIGFrame

\* setNodeLabelValue(clientset, vGPUConfigStateLabel, configStateRebooting)
SetRebooting ==
    /\ ret.pc = "setNodeLabelValue"
    /\ \E ok \in BOOLEAN :
        /\ arg' = IF ok THEN [arg EXCEPT !.state = configStateRebooting] ELSE arg
        /\ ret' = IF ok THEN [ret EXCEPT !.pc = "rebootHost", !.labelSet = TRUE]
                  ELSE Return(ret, "unable to update node object")
    /\ MIGFrame

\* rebootHost: the reboot command starts and the process exits, or it does
\* not start.  After the reboot the mode has taken effect or has not, and the
\* units that were stopped are active again.
RebootHost ==
    /\ ret.pc = "rebootHost"
    /\ \/ /\ ret' = Return(ret, "unable to start reboot")
          /\ UNCHANGED arg
       \/ \E took \in BOOLEAN :
          /\ ret' = [ret EXCEPT !.pc = "rebooted"]
          /\ arg' = [arg EXCEPT !.reboots = @ + 1, !.mode = took,
                                !.unit = [u \in DOMAIN @ |->
                                            IF u \in ret.stopped THEN "active" ELSE @[u]]]
    /\ MIGFrame

\* the daemon comes up after the reboot and reconfigureMIG is called again
Restart ==
    /\ ret.pc = "rebooted"
    /\ ret.runs < MaxRuns
    /\ ret' = [NoRun EXCEPT !.op = "reconfigureMIG", !.pc = "validate",
                            !.services = HostGPUClientServices,
                            !.labelAtStart = arg.state, !.modeAtStart = arg.mode,
                            !.runs = ret.runs + 1]
    /\ UNCHANGED arg
    /\ MIGFrame

\* applyMIGConfig
ApplyMIGConfig ==
    /\ ret.pc = "applyMIGConfig"
    /\ \E ok \in BOOLEAN :
        /\ arg' = IF ok /\ arg.mode THEN [arg EXCEPT !.config = TRUE] ELSE arg
        /\ ret' = IF ~(ok /\ arg.mode) THEN Return(ret, "mig-parted apply failed")
                  ELSE IF ~arg.WithShutdownHostGPUClients THEN Return(ret, "nil")
                  ELSE [ret EXCEPT
                          !.pc = "hostStartSystemdServices", !.i = 1,
                          !.hostGPUClientServicesStopped =
                              IF Len(@) = 0
                              THEN SelectSeq(ret.services,
                                             LAMBDA sv : shouldRestartService(arg.unit, sv))
                              ELSE @]
    /\ MIGFrame

\* hostStartSystemdServices: one turn of its loop
StartService ==
    /\ ret.pc = "hostStartSystemdServices"
    /\ IF ret.i > Len(ret.hostGPUClientServicesStopped)
       THEN /\ ret' = Return(ret, IF ret.retCode # 0
                                  THEN "some services failed to start" ELSE "nil")
            /\ UNCHANGED arg
       ELSE \E ok \in BOOLEAN :
            LET service == ret.hostGPUClientServicesStopped[ret.i]
            IN  /\ arg' = IF ok THEN [arg EXCEPT !.unit[service] = "active"] ELSE arg
                /\ ret' = [ret EXCEPT !.i = @ + 1, !.started = @ \cup {service},
                                      !.retCode = IF ok THEN @ ELSE 1]
    /\ MIGFrame

NextMIG ==
    \/ Reconfigure
    \/ Validate
    \/ GetState
    \/ AssertMIGConfig
    \/ AssertMIGModeOnly
    \/ StopService
    \/ ApplyMIGModeOnly
    \/ SetRebooting
    \/ RebootHost
    \/ Restart
    \/ ApplyMIGConfig
    \/ StartService

SpecMIG == InitMIG /\ [][NextMIG]_vars

\* C36: reconfigureMIG is about to reboot or has rebooted the host only with
\* reboot enabled and after it has set the state label to rebooting; a call
\* that started with the state label rebooting and the MIG mode not applied
\* goes no further than the check of the mode and returns an error.
C36_RebootOnlyOnceAndLabelled ==
    /\ ret.pc \in {"rebootHost", "rebooted"}
       => (arg.WithReboot /\ ret.labelSet /\ arg.state = configStateRebooting)
    /\ (ret.op = "reconfigureMIG" /\ ret.labelAtStart = configStateRebooting
        /\ ~ret.modeAtStart)
       => /\ ret.pc \in {"validate", "getNodeLabelValue", "assertMIGConfig",
                         "assertMIGModeOnly", "returned"}
          /\ ret.pc = "returned" => ret.err # "nil"

\* the host was rebooted, the mode did not take effect, and the next call
\* returned the error instead of rebooting again
C36_Witness ==
    /\ arg.reboots = 1
    /\ ret.pc = "returned"
    /\ ret.err = "MIG mode change failed after reboot"

\* C37: when reconfigureMIG has returned, it has issued a systemctl start
\* for every service that it stopped.
C37_StoppedServicesAreStarted ==
    ret.pc = "returned" => ret.stopped \subseteq ret.started


(* The type-list device manager: the parent lists of createDesiredVGPUDevices. *)
\* C38: no reconciliation pass ends in the panic of an index past the end
\* of the parent list in getNextAvailableParentDevice, whatever types and
\* parents were discovered.
C38_NoReadPastTheParentList ==
    \A p \in DOMAIN pass : pass[p].pc # "crashed"

====
